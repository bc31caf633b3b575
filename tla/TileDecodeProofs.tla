--------------------------- MODULE TileDecodeProofs ---------------------------
(***************************************************************************)
(* What holds of the decoding of a tile for any number of code-blocks,     *)
(* components, areas, calls, lines and threads, whatever fails.  Then of   *)
(* the samples, for lines of any length and images of any size: that the   *)
(* transforms are reversible and how far the synthesis of a sample         *)
(* reaches, and where the samples of a tile are copied to.                 *)
(***************************************************************************)
EXTENDS TileDecode, Wavelet, TileGrid, FiniteSetTheorems, TLAPS

\* The second part of NoJobOutlivesItsStep.
OfItsStep ==
  \A j \in Pool!Outstanding :
    /\ j[1] = call
    /\ \/ j[2] = 0 /\ pc \in InTier1
       \/ j[2] = pass /\ pc \in InPass

Jobs == (1..MaxCalls) \X (0..Passes) \X Nat

InWavelet == {"dwt", "dwt_inline"} \cup InPass

\* The jobs main has submitted: of this call or an earlier one, of tier 1 until
\* it is over, of no pass that is still to come.
JobsInv ==
  /\ submitted \subseteq Jobs /\ IsFiniteSet(submitted)
  /\ done \subseteq submitted /\ running \subseteq Pool!Outstanding
  /\ limit = 0
  /\ pc \notin {"idle", "failed"} => call > 0
  /\ \A j \in submitted :
       /\ j[1] <= call
       /\ j[1] = call /\ pc \in {"t2"} \cup InTier1 => j[2] = 0
       /\ j[1] = call /\ pc \in InWavelet => j[2] <= pass

\* A pass in the making: a line has been transformed when the job it belongs to
\* is over, and every slice has its job, or the pool has refused one.
PassInv ==
  /\ pc \in InPass \cup {"dwt_inline"} => pass > 0
  /\ pc = "dwt_inline" => \A l \in LineNos : swept[l] = 0
  /\ pc \in InPass => threads > 1 /\ Lines > 1 /\ next <= NumJobs
  /\ pc \in InPass =>
       /\ \A k \in 0..(NumJobs - 1) : \A l \in SliceOf(k) :
            swept[l] = IF Job(pass, k) \in done THEN 1 ELSE 0
       /\ \A k \in 0..(NumJobs - 1) : k < next => Job(pass, k) \in submitted \/ refused
  /\ pc = "dwt_wait" => next = NumJobs
  /\ PassExact

Sample(b) == IF whole THEN tile_data[b] ELSE decoded_data[b]

\* Main has come to block b and gone on.
Handled(b) == b < next \/ (b = next /\ pc = "t1_submitted")

\* Tier 1 in the making.  While nothing has failed, a block main has passed has
\* its samples or a job to decode it.
Tier1Inv ==
  pc \in InTier1 =>
    /\ next > 0
    /\ \A b \in window : segs[b]
    /\ ret /\ pc \in {"t1_end", "t1_wait"} => next > NumBlocks
    /\ pc = "t1_submitted" => next \in Blocks
    /\ \A b \in Blocks : Job(0, b) \in Pool!Outstanding => b \in Selected
    /\ \A b \in Blocks : ret =>
         decoded_data[b] \in {"null", "coef"} \/ Job(0, b) \in Pool!Outstanding
    /\ \A b \in Blocks :
         Handled(b) /\ b \notin Selected /\ CompOf[b] \in used => decoded_data[b] = "null"
    /\ \A b \in Selected :
         Handled(b) /\ ret => refused \/ Sample(b) = "coef" \/ Job(0, b) \in Pool!Outstanding

\* Between the calls, and when one has come to the transforms.  Decoding a whole
\* tile gives no block data of its own.
KeptInv ==
  /\ whole /\ pc \in InTier1 => \A b \in Blocks : decoded_data[b] \in {"null", "coef"}
  /\ pc \in {"idle", "t2"} => \A b \in Blocks : decoded_data[b] \in {"null", "coef"}
  /\ pc \in InWavelet \cup {"window", "finish", "idle"} /\ call > 0 =>
       /\ AllSamples \/ refused
       /\ \A b \in Blocks : decoded_data[b] # "null" =>
            /\ decoded_data[b] = "coef"
            /\ CompOf[b] \in used => b \in window

\* Main is where the pool expects its client to be, and the job it would submit
\* next is a new one.
ClientInv ==
  /\ phase = IF pc \in {"t1_wait", "dwt_wait", "dwt_fail"} THEN "waiting" ELSE "open"
  /\ \A j \in submitted : j[1] = call =>
       /\ pc # "t2"
       /\ pc = "t1" => j[3] < next
       /\ pc = "t1_submitted" => j[3] <= next
       /\ pc \in InPass /\ j[2] = pass => j[3] < next

IInv ==
  /\ TypeOK /\ OfItsStep
  /\ JobsInv
  /\ PassInv
  /\ ClientInv
  /\ "submit" \notin Faults => ~refused
  /\ ~PackedHeaders => Tier1Inv /\ KeptInv

-----------------------------------------------------------------------------
(* Constants.                                                              *)
LEMMA ConstantTypes ==
  /\ NumBlocks \in Nat /\ NumBlocks > 0 /\ Levels \in Nat /\ Lines \in Nat /\ Lines > 0
  /\ MaxCalls \in Nat /\ Passes \in Nat
  /\ \A t \in Threads : t \in Nat
BY TileDecodeAssumption DEF TileDecodeAssumption, Passes

(* The types, action by action.                                            *)
LEMMA TypeCall == TypeOK /\ CallNext => TypeOK'
<1> USE ConstantTypes, TileDecodeAssumption
    DEF TypeOK, TileDecodeAssumption, MainAt, poolState, blockState, dwtState
<1> SUFFICES ASSUME TypeOK, NEW C \in SUBSET Comps \ {{}},
                    DecodeWhole(C) \/ \E W \in Windows : DecodeWindow(W, C)
             PROVE  TypeOK'
  BY DEF CallNext
<1>1. CASE DecodeWhole(C)
  <2>1. call' \in 0..MaxCalls /\ pc' = "t2"
    BY <1>1 DEF DecodeWhole
  <2>2. window' \subseteq Blocks /\ used' \subseteq Comps
    BY <1>1 DEF DecodeWhole
  <2>3. /\ decoded_data' \in [Blocks -> {"null", "zero", "coef", "blank"}]
        /\ tile_data' \in [Blocks -> {"none", "coef", "blank"}]
    BY <1>1 DEF DecodeWhole
  <2>4. whole' \in BOOLEAN /\ refused' \in BOOLEAN
    BY <1>1 DEF DecodeWhole
  <2>5. UNCHANGED <<threads, headers_left, segs, ret, jpc, next, pass, swept>>
    BY <1>1 DEF DecodeWhole
  <2> QED
    BY <2>1, <2>2, <2>3, <2>4, <2>5
<1>2. ASSUME NEW W \in Windows, DecodeWindow(W, C)
      PROVE  TypeOK'
  <2>1. /\ call' \in 0..MaxCalls /\ pc' = "t2"
        /\ window' \subseteq Blocks /\ used' \subseteq Comps
    BY <1>2 DEF DecodeWindow
  <2>2. whole' \in BOOLEAN /\ refused' \in BOOLEAN
    BY <1>2 DEF DecodeWindow
  <2>3. UNCHANGED <<threads, headers_left, segs, decoded_data, tile_data, ret, jpc, next, pass,
                    swept>>
    BY <1>2 DEF DecodeWindow
  <2> QED
    BY <2>1, <2>2, <2>3
<1> QED
  BY <1>1, <1>2

(* opj_tcd_decode_tile.                                                   *)
LEMMA TypeMain == TypeOK /\ MainNext => TypeOK'
<1> USE ConstantTypes
    DEF TypeOK, MainAt, AtBlock, poolState, callState, blockState, dwtState,
        InTier1, InPass
<1> SUFFICES ASSUME TypeOK, MainNext
             PROVE  TypeOK'
  OBVIOUS
<1>1. CASE TileFails \/ T2Decode
  <2>1. CASE TileFails
    BY <2>1 DEF TileFails
  <2>2. CASE T2Decode
    <3>1. segs' \in [Blocks -> BOOLEAN]
      BY <2>2 DEF T2Decode
    <3>2. pc' = "t1" /\ next' = 1 /\ headers_left' = FALSE /\ ret' = TRUE
      BY <2>2 DEF T2Decode
    <3>3. UNCHANGED <<threads, call, window, used, whole, refused, decoded_data, tile_data, jpc,
                      pass, swept>>
      BY <2>2 DEF T2Decode
    <3> QED
      BY <3>1, <3>2, <3>3
  <2> QED
    BY <1>1, <2>1, <2>2
<1>2. ASSUME NEW b \in Blocks,
             T1Discard(b) \/ T1Reuse(b) \/ T1Submit(b) \/ T1SubmitFails(b) \/ T1JobFails(b)
      PROVE  TypeOK'
  <2>1. CASE T1Discard(b)
    BY <2>1 DEF T1Discard, Blocks
  <2>2. CASE T1Reuse(b)
    BY <2>2 DEF T1Reuse, Blocks
  <2>3. CASE T1Submit(b)
    BY <2>3 DEF T1Submit, NeedsJob
  <2>4. CASE T1SubmitFails(b)
    BY <2>4 DEF T1SubmitFails, NeedsJob
  <2>5. CASE T1JobFails(b)
    BY <2>5 DEF T1JobFails, NeedsJob
  <2> QED
    BY <1>2, <2>1, <2>2, <2>3, <2>4, <2>5
<1>3. CASE T1Submitted \/ T1LoopEnds \/ T1Wait \/ T1Returns
  BY <1>3 DEF T1Submitted, T1LoopEnds, T1Wait, T1Returns
<1>4. CASE DwtBegins \/ DwtInline \/ DwtSubmit \/ DwtSubmitFails
  <2>1. CASE DwtBegins
    BY <2>1 DEF DwtBegins
  <2>2. CASE DwtInline
    BY <2>2 DEF DwtInline, Sweep
  <2>3. CASE DwtSubmit
    BY <2>3 DEF DwtSubmit
  <2>4. CASE DwtSubmitFails
    BY <2>4 DEF DwtSubmitFails
  <2> QED
    BY <1>4, <2>1, <2>2, <2>3, <2>4
<1>5. CASE DwtMemFails \/ DwtJobFails \/ DwtWait \/ DwtReturns \/ DwtEnds
  BY <1>5 DEF DwtMemFails, DwtJobFails, DwtWait, DwtReturns, DwtEnds
<1>6. CASE WindowSynthesis \/ FinishFails \/ Finish
  BY <1>6 DEF WindowSynthesis, FinishFails, Finish
<1> QED
  BY <1>1, <1>2, <1>3, <1>4, <1>5, <1>6 DEF MainNext

(* The jobs.                                                              *)
LEMMA TypeWorker == TypeOK /\ WorkerNext => TypeOK'
<1> USE DEF TypeOK, poolState, callState, blockState, dwtState, JobReturns, InJob
<1> SUFFICES ASSUME TypeOK, WorkerNext
             PROVE  TypeOK'
  OBVIOUS
<1>1. CASE JobStarts
  BY <1>1 DEF JobStarts
<1>2. ASSUME NEW b \in Blocks, BlockNext(b)
      PROVE  TypeOK'
  BY <1>2 DEF BlockNext, T1Alloc, T1AllocFails, T1GiveUp, T1GoOn, T1Decode, T1DecodeFails,
              Samples
<1>3. ASSUME NEW k \in 0..(NumJobs - 1), DwtJob(k)
      PROVE  TypeOK'
  BY <1>3 DEF DwtJob, Sweep
<1> QED
  BY <1>1, <1>2, <1>3 DEF WorkerNext

(* Every step.                                                            *)
LEMMA TypeStep == TypeOK /\ [Next]_vars => TypeOK'
<1>1. ASSUME TypeOK, UNCHANGED vars
      PROVE  TypeOK'
  BY <1>1 DEF TypeOK, vars, callState, blockState, dwtState
<1>2. TypeOK /\ Over => TypeOK'
  BY <1>1 DEF Over
<1> QED
  BY <1>1, <1>2, TypeCall, TypeMain, TypeWorker DEF Next

-----------------------------------------------------------------------------
(* opj_thread_pool_wait_completion(0) comes back when no job is left.      *)
LEMMA NoneLeft ==
  ASSUME JobsInv, Pool!WaitReturns
  PROVE  Pool!Outstanding = {}
<1>1. IsFiniteSet(Pool!Outstanding)
  BY FS_Difference DEF JobsInv, Pool!Outstanding
<1>2. Pool!Cardinality(Pool!Outstanding) = Cardinality(Pool!Outstanding)
  BY DEF Pool!Cardinality, Cardinality
<1>3. Cardinality(Pool!Outstanding) \in Nat /\ Cardinality(Pool!Outstanding) <= 0
  BY <1>1, <1>2, FS_CardinalityType DEF JobsInv, Pool!WaitReturns
<1> QED
  BY <1>1, <1>3, FS_EmptySet

(* A job main submits is a job of its own.                                 *)
LEMMA Submitted ==
  ASSUME TypeOK, JobsInv, call > 0, NEW s \in 0..Passes, NEW p \in Nat,
         Pool!Submit(Job(s, p))
  PROVE  /\ submitted' = submitted \cup {<<call, s, p>>}
         /\ submitted' \subseteq Jobs /\ IsFiniteSet(submitted')
         /\ done' = done /\ limit' = limit /\ phase' = phase
         /\ done' \subseteq submitted' /\ running' \subseteq Pool!Outstanding'
         /\ Pool!Outstanding' = Pool!Outstanding \cup {<<call, s, p>>}
<1>1. /\ <<call, s, p>> \notin submitted /\ submitted' = submitted \cup {<<call, s, p>>}
      /\ running' \subseteq running \cup {<<call, s, p>>}
      /\ done' = done /\ limit' = limit /\ phase' = phase
  BY DEF Pool!Submit, Job
<1>2. <<call, s, p>> \in Jobs
  BY ConstantTypes DEF TypeOK, Jobs
<1>3. IsFiniteSet(submitted')
  BY <1>1, FS_AddElement DEF JobsInv
<1> QED
  BY <1>1, <1>2, <1>3 DEF JobsInv, Pool!Outstanding

(* A job that is over is no longer outstanding.                            *)
LEMMA Finished ==
  ASSUME JobsInv, NEW j \in running, Pool!Finish(j)
  PROVE  /\ submitted' = submitted /\ limit' = limit /\ phase' = phase
         /\ done' = done \cup {j} /\ done' \subseteq submitted'
         /\ j \in Pool!Outstanding /\ Pool!Outstanding' = Pool!Outstanding \ {j}
         /\ running' \subseteq Pool!Outstanding'
BY DEF JobsInv, Pool!Finish, Pool!Outstanding

-----------------------------------------------------------------------------
(* The jobs, action by action.                                             *)
LEMMA JobsCall == TypeOK /\ OfItsStep /\ JobsInv /\ CallNext => JobsInv' /\ OfItsStep'
<1> SUFFICES ASSUME TypeOK, OfItsStep, JobsInv, NEW C \in SUBSET Comps \ {{}},
                    DecodeWhole(C) \/ \E W \in Windows : DecodeWindow(W, C)
             PROVE  JobsInv' /\ OfItsStep'
  BY DEF CallNext
<1>1. /\ pc = "idle" /\ pc' = "t2" /\ call' = call + 1
      /\ UNCHANGED <<submitted, running, done, limit>>
  BY DEF DecodeWhole, DecodeWindow, MainAt, poolState
<1>2. Pool!Outstanding = {} /\ Pool!Outstanding' = {}
  BY <1>1 DEF OfItsStep, Pool!Outstanding, InTier1, InPass
<1>3. JobsInv'
  BY <1>1, <1>2 DEF JobsInv, TypeOK, Jobs, InTier1, InWavelet, InPass
<1> QED
  BY <1>2, <1>3 DEF OfItsStep

\* Main goes on without the pool.
MainAlone ==
  /\ UNCHANGED <<submitted, running, done, limit, call>>
  /\ \/ pc = "t2" /\ pc' = "failed"
     \/ pc = "t2" /\ pc' = "t1"
     \/ pc \in InTier1 /\ pc' \in InTier1
     \/ pc \in InPass /\ pc' = pc /\ pass' = pass
     \/ pc = "dwt" /\ pc' \in {"dwt_inline", "dwt_jobs"} /\ pass' = pass + 1
     \/ pc = "dwt_inline" /\ pc' = "dwt" /\ pass' = pass
     \/ pc = "dwt_jobs" /\ pc' \in {"dwt_wait", "dwt_fail"} /\ pass' = pass
     \/ pc \in {"dwt", "window", "finish"} /\ pc' \in {"finish", "idle", "failed"}

(* Steps that leave the pool alone, or only begin to wait in it.          *)
LEMMA JobsAlone == TypeOK /\ OfItsStep /\ JobsInv /\ MainAlone => JobsInv' /\ OfItsStep'
<1> SUFFICES ASSUME TypeOK, OfItsStep, JobsInv, MainAlone
             PROVE  JobsInv' /\ OfItsStep'
  OBVIOUS
<1>1. Pool!Outstanding' = Pool!Outstanding
  BY DEF MainAlone, Pool!Outstanding
<1>2. JobsInv'
  BY <1>1 DEF MainAlone, JobsInv, TypeOK, Jobs, InTier1, InWavelet, InPass
<1>3. OfItsStep'
  BY <1>1 DEF MainAlone, OfItsStep, InTier1, InPass
<1> QED
  BY <1>2, <1>3

(* The steps of opj_tcd_decode_tile.                                      *)
LEMMA JobsMain == TypeOK /\ OfItsStep /\ JobsInv /\ MainNext => JobsInv' /\ OfItsStep'
<1> SUFFICES ASSUME TypeOK, OfItsStep, JobsInv, MainNext
             PROVE  JobsInv' /\ OfItsStep'
  OBVIOUS
<1> USE DEF MainAt, poolState, callState, blockState, dwtState
<1>1. CASE TileFails \/ T2Decode
  BY <1>1, JobsAlone DEF MainAlone, TileFails, T2Decode
<1>2. ASSUME NEW b \in Blocks,
             T1Discard(b) \/ T1Reuse(b) \/ T1Submit(b) \/ T1SubmitFails(b) \/ T1JobFails(b)
      PROVE  JobsInv' /\ OfItsStep'
  <2> USE DEF AtBlock, NeedsJob, InTier1
  <2>1. CASE T1Discard(b) \/ T1Reuse(b) \/ T1SubmitFails(b) \/ T1JobFails(b)
    BY <2>1, JobsAlone DEF MainAlone, T1Discard, T1Reuse, T1SubmitFails, T1JobFails
  <2>2. CASE T1Submit(b)
    <3>1. /\ pc = "t1" /\ pc' = "t1_submitted" /\ call' = call /\ call > 0 /\ pass' = pass
          /\ Pool!Submit(Job(0, b)) /\ b \in Nat /\ 0 \in 0..Passes
      BY <2>2, ConstantTypes DEF T1Submit, JobsInv, Blocks
    <3>2. /\ submitted' = submitted \cup {<<call, 0, b>>} /\ submitted' \subseteq Jobs
          /\ IsFiniteSet(submitted') /\ done' \subseteq submitted' /\ limit' = limit
          /\ running' \subseteq Pool!Outstanding'
          /\ Pool!Outstanding' = Pool!Outstanding \cup {<<call, 0, b>>}
      BY <3>1, Submitted
    <3> QED
      BY <3>1, <3>2 DEF JobsInv, OfItsStep, TypeOK, InWavelet, InPass
  <2> QED
    BY <1>2, <2>1, <2>2
<1>3. CASE T1Submitted \/ T1LoopEnds \/ T1Wait
  BY <1>3, JobsAlone DEF MainAlone, T1Submitted, T1LoopEnds, T1Wait, Pool!WaitFor,
                         Pool!AtLeastZero, InTier1, JobsInv
<1>4. CASE T1Returns
  <2>1. Pool!Outstanding = {} /\ Pool!Outstanding' = {}
    BY <1>4, NoneLeft DEF T1Returns, Pool!WaitReturns, Pool!Outstanding
  <2>2. /\ pc = "t1_wait" /\ pc' \in {"failed", "dwt", "window"} /\ pass' = 0 /\ call' = call
        /\ UNCHANGED <<submitted, running, done, limit>>
    BY <1>4 DEF T1Returns, Pool!WaitReturns
  <2> QED
    BY <2>1, <2>2 DEF JobsInv, OfItsStep, InTier1, InWavelet, InPass
<1>5. CASE DwtBegins \/ DwtInline \/ DwtSubmitFails
  BY <1>5, JobsAlone DEF MainAlone, DwtBegins, DwtInline, DwtSubmitFails, InPass
<1>6. CASE DwtSubmit
  <2>1. /\ pc = "dwt_jobs" /\ pc' = pc /\ call' = call /\ call > 0 /\ pass' = pass
        /\ Pool!Submit(Job(pass, next)) /\ next \in Nat /\ pass \in 0..Passes
    BY <1>6 DEF DwtSubmit, JobsInv, TypeOK
  <2>2. /\ submitted' = submitted \cup {<<call, pass, next>>} /\ submitted' \subseteq Jobs
        /\ IsFiniteSet(submitted') /\ done' \subseteq submitted' /\ limit' = limit
        /\ running' \subseteq Pool!Outstanding'
        /\ Pool!Outstanding' = Pool!Outstanding \cup {<<call, pass, next>>}
    BY <2>1, Submitted
  <2> QED
    BY <2>1, <2>2 DEF JobsInv, OfItsStep, TypeOK, InTier1, InWavelet, InPass
<1>7. CASE DwtJobFails \/ DwtWait
  BY <1>7, JobsAlone DEF MainAlone, DwtJobFails, DwtWait, Pool!WaitFor, Pool!AtLeastZero,
                         JobsInv
<1>8. CASE DwtReturns
  <2>1. Pool!Outstanding = {} /\ Pool!Outstanding' = {}
    BY <1>8, NoneLeft DEF DwtReturns, Pool!WaitReturns, Pool!Outstanding
  <2>2. /\ pc \in {"dwt_wait", "dwt_fail"} /\ pc' \in {"failed", "dwt"} /\ pass' = pass
        /\ UNCHANGED <<submitted, running, done, limit, call>>
    BY <1>8 DEF DwtReturns, Pool!WaitReturns
  <2> QED
    BY <2>1, <2>2 DEF JobsInv, OfItsStep, InTier1, InWavelet, InPass
<1>9. CASE DwtMemFails \/ DwtEnds \/ WindowSynthesis \/ FinishFails \/ Finish
  BY <1>9, JobsAlone DEF MainAlone, DwtMemFails, DwtEnds, WindowSynthesis, FinishFails, Finish
<1> QED
  BY <1>1, <1>2, <1>3, <1>4, <1>5, <1>6, <1>7, <1>8, <1>9 DEF MainNext

(* The steps of the jobs.                                                 *)
LEMMA JobsWorker == OfItsStep /\ JobsInv /\ WorkerNext => JobsInv' /\ OfItsStep'
<1> SUFFICES ASSUME OfItsStep, JobsInv, WorkerNext
             PROVE  JobsInv' /\ OfItsStep'
  OBVIOUS
<1> USE DEF poolState, callState, blockState, dwtState
<1>1. UNCHANGED <<pc, call, pass>>
  BY DEF WorkerNext, JobStarts, BlockNext, T1Alloc, T1AllocFails, T1GiveUp, T1GoOn, T1Decode,
         T1DecodeFails, DwtJob
<1>2. ASSUME NEW j \in running, Pool!Finish(j)
      PROVE  JobsInv' /\ OfItsStep'
  BY <1>1, <1>2, Finished DEF JobsInv, OfItsStep
<1>3. ASSUME UNCHANGED poolState
      PROVE  JobsInv' /\ OfItsStep'
  BY <1>1, <1>3 DEF JobsInv, OfItsStep, Pool!Outstanding
<1>4. CASE JobStarts
  BY <1>1, <1>4 DEF JobStarts, Pool!Start, Pool!Outstanding, JobsInv, OfItsStep
<1>5. ASSUME NEW b \in Blocks, BlockNext(b)
      PROVE  UNCHANGED poolState \/ (Job(0, b) \in running /\ Pool!Finish(Job(0, b)))
  BY <1>5 DEF BlockNext, T1Alloc, T1AllocFails, T1GiveUp, T1GoOn, T1Decode, T1DecodeFails,
              JobReturns, InJob
<1>6. ASSUME NEW k \in 0..(NumJobs - 1), DwtJob(k)
      PROVE  Job(pass, k) \in running /\ Pool!Finish(Job(pass, k))
  BY <1>6 DEF DwtJob
<1> QED
  BY <1>2, <1>3, <1>4, <1>5, <1>6 DEF WorkerNext

-----------------------------------------------------------------------------
(* Division, by multiplications.                                           *)
LEMMA DivBounds ==
  ASSUME NEW a \in Nat, NEW q \in Nat, q > 0
  PROVE  a \div q \in Nat /\ (a \div q) * q <= a /\ a < (a \div q + 1) * q
OBVIOUS

(* Of something not larger.                                               *)
LEMMA DivPositive ==
  ASSUME NEW a \in Nat, NEW n \in Nat, n > 0, n <= a
  PROVE  a \div n \in Nat /\ a \div n > 0
OBVIOUS

(* Products keep an order.                                                *)
LEMMA TimesMonotone ==
  ASSUME NEW a \in Int, NEW b \in Int, NEW q \in Nat, a <= b
  PROVE  a * q \in Int /\ b * q \in Int /\ a * q <= b * q
OBVIOUS

(* opj_dwt_decode_tile with more threads than one: a pass is cut into at   *)
(* least two slices, and none is wider than the pass.                      *)
LEMMA JobCount ==
  ASSUME threads \in Nat, threads > 1, Lines > 1
  PROVE  /\ NumJobs \in Nat /\ NumJobs > 1
         /\ Lines \div NumJobs \in Nat /\ Lines \div NumJobs > 0
<1>1. NumJobs \in Nat /\ NumJobs > 1 /\ NumJobs <= Lines
  BY ConstantTypes DEF NumJobs
<1> QED
  BY <1>1, ConstantTypes, DivPositive

(* min_j and max_j in opj_dwt_decode_tile: every line of a pass is in the  *)
(* slice of one job, also when the lines do not divide evenly.             *)
THEOREM SlicesCover ==
  ASSUME threads \in Nat, threads > 1, Lines > 1, NEW l \in LineNos
  PROVE  \E k \in 0..(NumJobs - 1) : l \in SliceOf(k)
<1> DEFINE q == Lines \div NumJobs
           last == NumJobs - 1
<1>1. NumJobs \in Nat /\ NumJobs > 1 /\ q \in Nat /\ q > 0 /\ l \in Nat
  BY JobCount DEF LineNos
<1>2. CASE last * q <= l
  <2>1. l \in SliceOf(last)
    BY <1>1, <1>2 DEF SliceOf
  <2> QED
    BY <1>1, <2>1
<1>3. CASE ~(last * q <= l)
  <2> DEFINE k == l \div q
  <2>1. k \in Nat /\ k * q <= l /\ l < (k + 1) * q
    BY <1>1, DivBounds
  <2>2. last \in Int /\ last * q \in Int
    BY <1>1
  <2> HIDE DEF k, q, last
  <2>3. ~(last <= k)
    BY <1>1, <1>3, <2>1, <2>2, TimesMonotone
  <2>4. k \in 0..last
    BY <2>1, <2>2, <2>3
  <2>5. l \in SliceOf(k)
    BY <2>1 DEF SliceOf, q
  <2> QED
    BY <2>4, <2>5 DEF last
<1> QED
  BY <1>2, <1>3

(* No two jobs of a pass transform the same line.                          *)
THEOREM SlicesDisjoint ==
  ASSUME threads \in Nat, threads > 1, Lines > 1,
         NEW j \in 0..(NumJobs - 1), NEW k \in 0..(NumJobs - 1), j # k
  PROVE  SliceOf(j) \cap SliceOf(k) = {}
<1> DEFINE q == Lines \div NumJobs
<1>1. NumJobs \in Nat /\ q \in Nat
  BY JobCount
<1>2. ASSUME NEW a \in 0..(NumJobs - 1), NEW b \in 0..(NumJobs - 1), a < b,
             NEW l \in SliceOf(a), l \in SliceOf(b)
      PROVE  FALSE
  <2>1. l \in Nat /\ b * q <= l /\ l < (a + 1) * q
    BY <1>1, <1>2 DEF SliceOf, LineNos
  <2> HIDE DEF q
  <2>2. (a + 1) * q <= b * q /\ a + 1 \in Int /\ (a + 1) * q \in Int /\ b * q \in Int
    BY <1>1, <1>2, TimesMonotone
  <2> QED
    BY <2>1, <2>2
<1> QED
  BY <1>1, <1>2

-----------------------------------------------------------------------------
(* The lines of a pass, action by action.                                  *)
LEMMA SweptBy ==
  ASSUME TypeOK, NEW ls, NEW l \in LineNos, swept' = Sweep(ls)
  PROVE  swept'[l] = IF l \in ls THEN swept[l] + 1 ELSE swept[l]
BY DEF Sweep

(* A call begins.                                                         *)
LEMMA PassCall == PassInv /\ CallNext => PassInv'
<1> SUFFICES ASSUME PassInv, CallNext
             PROVE  PassInv'
  OBVIOUS
<1>1. pc' = "t2"
  BY DEF CallNext, DecodeWhole, DecodeWindow
<1> QED
  BY <1>1 DEF PassInv, PassExact, InPass

\* Main is not at a pass, nor has it just finished one.
LEMMA PassElsewhere ==
  ASSUME pc' \notin {"dwt", "dwt_inline"} \cup InPass
  PROVE  PassInv'
BY DEF PassInv, PassExact, InPass

(* The steps of opj_tcd_decode_tile.                                      *)
LEMMA PassMain ==
  TypeOK /\ OfItsStep /\ JobsInv /\ PassInv /\ MainNext => PassInv'
<1> SUFFICES ASSUME TypeOK, OfItsStep, JobsInv, PassInv, MainNext
             PROVE  PassInv'
  OBVIOUS
<1> USE DEF MainAt, poolState, callState, blockState, dwtState
<1>1. CASE TileFails \/ T2Decode
  BY <1>1, PassElsewhere DEF TileFails, T2Decode, InPass
<1>2. ASSUME NEW b \in Blocks,
             T1Discard(b) \/ T1Reuse(b) \/ T1Submit(b) \/ T1SubmitFails(b) \/ T1JobFails(b)
      PROVE  PassInv'
  BY <1>2, PassElsewhere DEF T1Discard, T1Reuse, T1Submit, T1SubmitFails, T1JobFails,
                             AtBlock, NeedsJob, InPass
<1>3. CASE T1Submitted \/ T1LoopEnds \/ T1Wait
  BY <1>3, PassElsewhere DEF T1Submitted, T1LoopEnds, T1Wait, InPass
<1>4. CASE T1Returns
  BY <1>4 DEF T1Returns, PassInv, PassExact, InPass
<1>5. CASE DwtBegins
  <2>1. /\ pc = "dwt" /\ pc' \in {"dwt_inline", "dwt_jobs"} /\ pass' = pass + 1 /\ next' = 0
        /\ swept' = [l \in LineNos |-> 0]
        /\ UNCHANGED <<submitted, done, threads, call, refused>>
    BY <1>5 DEF DwtBegins
  <2>2. threads \in Nat /\ pass \in Nat
    BY ConstantTypes DEF TypeOK
  <2>3. pc' = "dwt_jobs" => threads > 1 /\ Lines > 1 /\ NumJobs \in Nat /\ NumJobs > 1
    BY <1>5, <2>2, JobCount, ConstantTypes DEF DwtBegins
  <2>4. \A k \in Nat : <<call, pass + 1, k>> \notin done
    BY <2>1, <2>2 DEF JobsInv, InWavelet
  <2>5. NumJobs' = NumJobs /\ \A k \in Nat : SliceOf(k) \subseteq LineNos
    BY <2>1 DEF NumJobs, SliceOf
  <2>6. \A k \in Nat : SliceOf(k)' = SliceOf(k) /\ Job(pass, k)' = <<call, pass + 1, k>>
    BY <2>1, <2>5 DEF SliceOf, Job
  <2> QED
    BY <2>1, <2>2, <2>3, <2>4, <2>5, <2>6 DEF PassInv, PassExact, InPass
<1>6. CASE DwtInline
  <2>1. pc' = "dwt" /\ pc = "dwt_inline" /\ swept' = Sweep(LineNos) /\ refused' = refused
    BY <1>6 DEF DwtInline
  <2>2. \A l \in LineNos : swept'[l] = 1
    BY <2>1, SweptBy DEF PassInv
  <2> QED
    BY <2>1, <2>2 DEF PassInv, PassExact, InPass
<1>7. CASE DwtSubmit \/ DwtSubmitFails
  <2>1. /\ pc = "dwt_jobs" /\ pc' = "dwt_jobs" /\ next' = next + 1 /\ next < NumJobs
        /\ UNCHANGED <<done, threads, call, pass, swept>>
        /\ submitted \subseteq submitted'
        /\ \/ Job(pass, next) \in submitted' /\ refused' = refused
           \/ refused' = TRUE
    BY <1>7 DEF DwtSubmit, DwtSubmitFails, Pool!Submit
  <2>2. threads \in Nat /\ threads > 1 /\ Lines > 1 /\ next \in Nat /\ NumJobs \in Nat
    BY <2>1, ConstantTypes, JobCount DEF TypeOK, PassInv, InPass
  <2>3. /\ NumJobs' = NumJobs /\ \A k \in Nat : SliceOf(k)' = SliceOf(k)
        /\ \A k \in Nat : Job(pass, k)' = Job(pass, k)
    BY <2>1 DEF NumJobs, SliceOf, Job
  <2>4. pass > 0 /\ next <= NumJobs
    BY <2>1 DEF PassInv, InPass
  <2>5. \A k \in 0..(NumJobs - 1) : \A l \in SliceOf(k) :
          swept[l] = IF Job(pass, k) \in done THEN 1 ELSE 0
    BY <2>1 DEF PassInv, InPass
  <2>6. \A k \in 0..(NumJobs - 1) : k < next + 1 => Job(pass, k) \in submitted' \/ refused'
    BY <2>1, <2>2 DEF PassInv, InPass
  <2> QED
    BY <2>1, <2>2, <2>3, <2>4, <2>5, <2>6 DEF PassInv, PassExact, InPass
<1>8. CASE DwtJobFails \/ DwtWait
  <2>1. /\ pc = "dwt_jobs" /\ pc' \in {"dwt_wait", "dwt_fail"}
        /\ pc' = "dwt_wait" => next = NumJobs
        /\ UNCHANGED <<submitted, done, threads, call, pass, swept, next, refused>>
    BY <1>8 DEF DwtJobFails, DwtWait, Pool!WaitFor
  <2>2. /\ NumJobs' = NumJobs /\ \A k : SliceOf(k)' = SliceOf(k)
        /\ \A k : Job(pass, k)' = Job(pass, k)
    BY <2>1 DEF NumJobs, SliceOf, Job
  <2> QED
    BY <2>1, <2>2 DEF PassInv, PassExact, InPass
<1>9. CASE DwtReturns
  <2>1. /\ pc \in {"dwt_wait", "dwt_fail"}
        /\ pc' = IF pc = "dwt_wait" THEN "dwt" ELSE "failed"
        /\ UNCHANGED <<pass, swept, refused>>
        /\ Pool!Outstanding = {}
    BY <1>9, NoneLeft DEF DwtReturns
  <2>2. CASE pc = "dwt_fail"
    BY <2>1, <2>2, PassElsewhere DEF InPass
  <2>3. CASE pc = "dwt_wait"
    <3>1. threads \in Nat /\ threads > 1 /\ Lines > 1 /\ next = NumJobs
      BY <2>3, ConstantTypes DEF TypeOK, PassInv, InPass
    <3>2. \A k \in 0..(NumJobs - 1) : Job(pass, k) \in done \/ refused
      BY <2>1, <2>3, <3>1, JobCount DEF PassInv, InPass, Pool!Outstanding
    <3>3. ASSUME NEW l \in LineNos
          PROVE  swept[l] <= 1 /\ (swept[l] = 1 \/ refused)
      <4>1. PICK k \in 0..(NumJobs - 1) : l \in SliceOf(k)
        BY <3>1, SlicesCover
      <4>2. swept[l] = IF Job(pass, k) \in done THEN 1 ELSE 0
        BY <2>3, <4>1 DEF PassInv, InPass
      <4> QED
        BY <3>2, <4>2
    <3> QED
      BY <2>1, <2>3, <3>3 DEF PassInv, PassExact, InPass
  <2> QED
    BY <2>1, <2>2, <2>3
<1>10. CASE DwtMemFails \/ DwtEnds \/ WindowSynthesis \/ FinishFails \/ Finish
  BY <1>10, PassElsewhere DEF DwtMemFails, DwtEnds, WindowSynthesis, FinishFails, Finish, InPass
<1> QED
  BY <1>1, <1>2, <1>3, <1>4, <1>5, <1>6, <1>7, <1>8, <1>9, <1>10 DEF MainNext

(* The steps of the jobs.                                                 *)
LEMMA PassWorker ==
  TypeOK /\ OfItsStep /\ JobsInv /\ PassInv /\ WorkerNext => PassInv'
<1> SUFFICES ASSUME TypeOK, OfItsStep, JobsInv, PassInv, WorkerNext
             PROVE  PassInv'
  OBVIOUS
<1> USE DEF poolState, callState, blockState, dwtState
<1>1. /\ UNCHANGED <<pc, call, pass, threads, next, refused>>
      /\ NumJobs' = NumJobs
      /\ \A k : SliceOf(k)' = SliceOf(k) /\ Job(pass, k)' = Job(pass, k)
  BY DEF WorkerNext, JobStarts, BlockNext, T1Alloc, T1AllocFails, T1GiveUp, T1GoOn, T1Decode,
         T1DecodeFails, DwtJob, NumJobs, SliceOf, Job
<1>2. ASSUME UNCHANGED <<submitted, done, swept>>
      PROVE  PassInv'
  BY <1>1, <1>2 DEF PassInv, PassExact, InPass
<1>3. CASE JobStarts
  BY <1>2, <1>3 DEF JobStarts, Pool!Start
<1>4. ASSUME NEW b \in Blocks, BlockNext(b)
      PROVE  PassInv'
  <2>1. swept' = swept /\ (UNCHANGED poolState \/ Pool!Finish(Job(0, b)))
    BY <1>4 DEF BlockNext, T1Alloc, T1AllocFails, T1GiveUp, T1GoOn, T1Decode, T1DecodeFails,
                JobReturns, InJob
  <2>2. CASE Pool!Finish(Job(0, b))
    <3>1. submitted' = submitted /\ done' = done \cup {Job(0, b)}
      BY <2>2 DEF Pool!Finish
    <3>2. pass > 0 => \A k : Job(pass, k) # Job(0, b)
      BY DEF Job
    <3>3. pc \in InPass => pass > 0
      BY DEF PassInv
    <3> QED
      BY <1>1, <2>1, <3>1, <3>2, <3>3 DEF PassInv, PassExact, InPass
  <2> QED
    BY <1>2, <2>1, <2>2
<1>5. ASSUME NEW k \in 0..(NumJobs - 1), DwtJob(k)
      PROVE  PassInv'
  <2>1. /\ Job(pass, k) \in running /\ Job(pass, k) \in Pool!Outstanding /\ pass > 0
        /\ submitted' = submitted /\ done' = done \cup {Job(pass, k)}
        /\ swept' = Sweep(SliceOf(k))
    BY <1>5, Finished DEF DwtJob
  <2>2. pc \in InPass
    BY <2>1 DEF OfItsStep, Job
  <2>3. threads \in Nat /\ threads > 1 /\ Lines > 1
    BY <2>2, ConstantTypes DEF TypeOK, PassInv
  <2>4. ASSUME NEW i \in 0..(NumJobs - 1), NEW l \in SliceOf(i)
        PROVE  swept'[l] = IF Job(pass, i) \in done' THEN 1 ELSE 0
    <3>1. l \in LineNos /\ swept[l] = IF Job(pass, i) \in done THEN 1 ELSE 0
      BY <2>2 DEF PassInv, SliceOf
    <3>2. swept'[l] = IF l \in SliceOf(k) THEN swept[l] + 1 ELSE swept[l]
      BY <2>1, <3>1, SweptBy
    <3>3. CASE i = k
      BY <2>1, <3>1, <3>2, <3>3 DEF Pool!Outstanding
    <3>4. CASE i # k
      <4>1. l \notin SliceOf(k)
        BY <2>3, <3>4, SlicesDisjoint
      <4>2. Job(pass, i) # Job(pass, k)
        BY <3>4 DEF Job
      <4> QED
        BY <2>1, <3>1, <3>2, <4>1, <4>2
    <3> QED
      BY <3>3, <3>4
  <2> QED
    BY <1>1, <2>1, <2>2, <2>4 DEF PassInv, PassExact, InPass
<1> QED
  BY <1>3, <1>4, <1>5 DEF WorkerNext

-----------------------------------------------------------------------------
(* The blocks, action by action.                                           *)
BlocksInv == Tier1Inv /\ KeptInv

(* A call begins with blocks as an earlier one left them, or with none.   *)
LEMMA BlocksCall == BlocksInv /\ CallNext => BlocksInv'
<1> SUFFICES ASSUME BlocksInv, NEW C \in SUBSET Comps \ {{}},
                    DecodeWhole(C) \/ \E W \in Windows : DecodeWindow(W, C)
             PROVE  BlocksInv'
  BY DEF CallNext
<1>1. pc = "idle" /\ pc' = "t2"
  BY DEF DecodeWhole, DecodeWindow, MainAt
<1>2. \/ \A b \in Blocks : decoded_data'[b] = "null"
      \/ decoded_data' = decoded_data
  BY DEF DecodeWhole, DecodeWindow, blockState
<1>3. \A b \in Blocks : decoded_data'[b] \in {"null", "coef"}
  BY <1>1, <1>2 DEF BlocksInv, KeptInv
<1> QED
  BY <1>1, <1>2, <1>3 DEF BlocksInv, Tier1Inv, KeptInv, InTier1, InWavelet, InPass

(* After tier 2 no block has a job yet.                                   *)
LEMMA BlocksT2 ==
  ASSUME ~PackedHeaders, TypeOK, OfItsStep, BlocksInv, T2Decode
  PROVE  BlocksInv'
<1>1. /\ pc = "t2" /\ pc' = "t1" /\ next' = 1
      /\ UNCHANGED <<submitted, running, done, call, window, used, whole, decoded_data, tile_data>>
      /\ \A b \in window : segs'[b]
  BY DEF T2Decode, MainAt, poolState, TypeOK
<1>2. Pool!Outstanding' = {}
  BY <1>1 DEF OfItsStep, Pool!Outstanding, InTier1, InPass
<1>3. \A b \in Blocks : decoded_data[b] \in {"null", "coef"}
  BY <1>1 DEF BlocksInv, KeptInv
<1>4. \A b \in Blocks : ~Handled(b)'
  BY <1>1 DEF Handled, Blocks
<1>5. Selected' \subseteq Blocks
  BY <1>1 DEF Selected, TypeOK
<1>6. Tier1Inv'
  BY <1>1, <1>2, <1>3, <1>4, <1>5 DEF Tier1Inv
<1>7. KeptInv'
  BY <1>1, <1>3 DEF KeptInv, InWavelet, InPass
<1> QED
  BY <1>6, <1>7 DEF BlocksInv

\* Main comes to block b and goes on: to the next block, or to look at ret.
Passes1(b) ==
  /\ pc = "t1" /\ next = b
  /\ \/ pc' = "t1" /\ next' = b + 1
     \/ pc' = "t1_submitted" /\ next' = b
  /\ UNCHANGED <<call, window, used, whole, segs, tile_data, ret>>
  /\ \A c \in Blocks \ {b} : decoded_data'[c] = decoded_data[c]
  /\ refused => refused'
  /\ Pool!Outstanding \subseteq Pool!Outstanding'
  /\ \A c \in Blocks \ {b} : Job(0, c) \in Pool!Outstanding' => Job(0, c) \in Pool!Outstanding

(* What is left to show when main comes to a block.                        *)
LEMMA BlockPassed ==
  ASSUME TypeOK, BlocksInv, NEW b \in Blocks, Passes1(b),
         decoded_data'[b] \in {"null", decoded_data[b]},
         Job(0, b) \in Pool!Outstanding' => b \in Selected,
         b \notin Selected /\ CompOf[b] \in used => decoded_data'[b] = "null",
         b \in Selected /\ ret =>
           refused' \/ (~whole /\ decoded_data'[b] = "coef") \/ Job(0, b) \in Pool!Outstanding'
  PROVE  BlocksInv'
<1>1. /\ pc = "t1" /\ next = b /\ pc' \in {"t1", "t1_submitted"} /\ b \in Nat
      /\ UNCHANGED <<call, window, used, whole, segs, tile_data, ret>>
      /\ \A c \in Blocks \ {b} : decoded_data'[c] = decoded_data[c]
      /\ next' > 0 /\ (pc' = "t1_submitted" => next' \in Blocks)
  BY DEF Passes1, Blocks
<1>2. Tier1Inv /\ pc \in InTier1 /\ pc' \in InTier1
  BY <1>1 DEF BlocksInv, InTier1
<1>3. \A c \in Blocks : Handled(c)' <=> Handled(c) \/ c = b
  BY <1>1 DEF Passes1, Handled, Blocks
<1>4. \A c : Job(0, c)' = Job(0, c)
  BY <1>1 DEF Job
<1>5. Selected' = Selected /\ Selected \subseteq Blocks
  BY <1>1 DEF Selected, TypeOK
<1>6. \A c \in window : segs'[c]
  BY <1>1, <1>2 DEF Tier1Inv
<1>7. \A c \in Blocks : Job(0, c)' \in Pool!Outstanding' => c \in Selected'
  BY <1>2, <1>4, <1>5 DEF Tier1Inv, Passes1
<1>8. \A c \in Blocks : ret' =>
        decoded_data'[c] \in {"null", "coef"} \/ Job(0, c)' \in Pool!Outstanding'
  BY <1>1, <1>2, <1>4 DEF Tier1Inv, Passes1
<1>9. \A c \in Blocks :
        Handled(c)' /\ c \notin Selected' /\ CompOf[c] \in used' => decoded_data'[c] = "null"
  BY <1>1, <1>2, <1>3, <1>5 DEF Tier1Inv
<1>10. \A c \in Blocks \ {b} : Sample(c)' = Sample(c)
  BY <1>1 DEF Sample
<1>11. \A c \in Selected' : Handled(c)' /\ ret' =>
         refused' \/ Sample(c)' = "coef" \/ Job(0, c)' \in Pool!Outstanding'
  <2> SUFFICES ASSUME NEW c \in Selected, Handled(c)', ret
               PROVE  refused' \/ Sample(c)' = "coef" \/ Job(0, c) \in Pool!Outstanding'
    BY <1>1, <1>4, <1>5
  <2>1. CASE c = b
    BY <1>1, <2>1 DEF Sample
  <2>2. CASE c # b
    <3>1. refused \/ Sample(c) = "coef" \/ Job(0, c) \in Pool!Outstanding
      BY <1>2, <1>3, <1>5, <2>2 DEF Tier1Inv
    <3>2. c \in Blocks \ {b} /\ Sample(c)' = Sample(c)
      BY <1>5, <1>10, <2>2
    <3>3. (refused => refused') /\ Pool!Outstanding \subseteq Pool!Outstanding'
      BY DEF Passes1
    <3> QED
      BY <3>1, <3>2, <3>3
  <2> QED
    BY <2>1, <2>2
<1>12. Tier1Inv'
  BY <1>1, <1>6, <1>7, <1>8, <1>9, <1>11 DEF Tier1Inv
<1>13. KeptInv'
  BY <1>1, <1>2 DEF BlocksInv, KeptInv, InTier1, InWavelet, InPass
<1> QED
  BY <1>12, <1>13 DEF BlocksInv

(* Main comes to a block.                                                 *)
LEMMA BlocksTier1 ==
  ASSUME TypeOK, JobsInv, BlocksInv, NEW b \in Blocks,
         T1Discard(b) \/ T1Reuse(b) \/ T1Submit(b) \/ T1SubmitFails(b)
  PROVE  BlocksInv'
<1> USE DEF AtBlock, NeedsJob, MainAt, poolState, callState, blockState, dwtState, Passes1
<1>1. pc = "t1" /\ Tier1Inv /\ ret \in BOOLEAN /\ decoded_data \in [Blocks -> {"null", "zero", "coef", "blank"}]
  BY DEF BlocksInv, TypeOK, T1Discard, T1Reuse, T1Submit, T1SubmitFails
<1>2. /\ Job(0, b) \in Pool!Outstanding => b \in Selected
      /\ ret => decoded_data[b] \in {"null", "coef"} \/ Job(0, b) \in Pool!Outstanding
  BY <1>1 DEF Tier1Inv, InTier1
<1>3. CASE T1Discard(b)
  <2>1. Passes1(b) /\ Pool!Outstanding' = Pool!Outstanding
    BY <1>1, <1>3 DEF T1Discard, Pool!Outstanding
  <2>2. b \notin Selected /\ decoded_data'[b] = IF CompOf[b] \in used THEN "null" ELSE decoded_data[b]
    BY <1>1, <1>3 DEF T1Discard
  <2> QED
    BY <1>2, <2>1, <2>2, BlockPassed
<1>4. CASE T1Reuse(b)
  <2>1. Passes1(b) /\ Pool!Outstanding' = Pool!Outstanding /\ decoded_data' = decoded_data
    BY <1>1, <1>4 DEF T1Reuse, Pool!Outstanding
  <2>2. b \in Selected /\ ~whole /\ decoded_data[b] # "null"
    BY <1>4 DEF T1Reuse, Reusable
  <2> QED
    BY <1>2, <2>1, <2>2, BlockPassed
<1>5. CASE T1Submit(b)
  <2>1. b \in Selected /\ decoded_data' = decoded_data
    BY <1>5 DEF T1Submit
  <2>2. submitted' = submitted \cup {Job(0, b)} /\ Job(0, b) \notin submitted /\ done' = done
    BY <1>5 DEF T1Submit, Pool!Submit
  <2>3. Passes1(b)
    <3>1. \A c \in Blocks \ {b} : Job(0, c) # Job(0, b)
      BY DEF Job
    <3> QED
      BY <1>5, <2>1, <2>2, <3>1 DEF T1Submit, Pool!Outstanding
  <2>4. Job(0, b) \in Pool!Outstanding'
    BY <2>2 DEF Pool!Outstanding, JobsInv
  <2> QED
    BY <2>1, <2>3, <2>4, BlockPassed
<1>6. CASE T1SubmitFails(b)
  <2>1. Passes1(b) /\ Pool!Outstanding' = Pool!Outstanding /\ refused' /\ b \in Selected
        /\ decoded_data' = decoded_data
    BY <1>6 DEF T1SubmitFails, Pool!Outstanding
  <2> QED
    BY <1>2, <2>1, BlockPassed
<1> QED
  BY <1>3, <1>4, <1>5, <1>6

\* Main leaves the loop, or has come to no other block.
LEMMA BlocksMove ==
  ASSUME TypeOK, BlocksInv, pc \in InTier1, pc' \in InTier1,
         UNCHANGED <<submitted, done, call, window, used, whole, segs, tile_data, decoded_data,
                     refused>>,
         ret' => ret,
         next' \in {next, next + 1},
         pc' = "t1_submitted" => next' \in Blocks,
         ret' /\ pc' \in {"t1_end", "t1_wait"} => next' > NumBlocks,
         \A b \in Blocks : ret' /\ Handled(b)' => Handled(b),
         \A b \in Blocks : Handled(b)' /\ b \notin Selected => Handled(b)
  PROVE  BlocksInv'
<1>1. /\ Pool!Outstanding' = Pool!Outstanding /\ Selected' = Selected
      /\ \A c : Job(0, c)' = Job(0, c) /\ Sample(c)' = Sample(c)
  BY DEF Pool!Outstanding, Selected, Job, Sample
<1>2. Tier1Inv
  BY DEF BlocksInv
<1>3. next' > 0 /\ \A b \in window' : segs'[b]
  BY <1>2 DEF Tier1Inv, TypeOK
<1>4. Selected \subseteq Blocks
  BY DEF Selected, TypeOK
<1>5. /\ \A b \in Blocks : Job(0, b)' \in Pool!Outstanding' => b \in Selected'
      /\ \A b \in Blocks : ret' =>
           decoded_data'[b] \in {"null", "coef"} \/ Job(0, b)' \in Pool!Outstanding'
  BY <1>1, <1>2 DEF Tier1Inv
<1>6. \A b \in Blocks :
        Handled(b)' /\ b \notin Selected' /\ CompOf[b] \in used' => decoded_data'[b] = "null"
  BY <1>1, <1>2 DEF Tier1Inv
<1>7. \A b \in Selected' : Handled(b)' /\ ret' =>
        refused' \/ Sample(b)' = "coef" \/ Job(0, b)' \in Pool!Outstanding'
  BY <1>1, <1>2, <1>4 DEF Tier1Inv
<1>8. Tier1Inv'
  BY <1>3, <1>5, <1>6, <1>7 DEF Tier1Inv
<1>9. KeptInv'
  BY DEF BlocksInv, KeptInv, InTier1, InWavelet, InPass
<1> QED
  BY <1>8, <1>9 DEF BlocksInv

\* The rest of tier 1.
LEMMA BlocksTier1Ends ==
  ASSUME TypeOK, JobsInv, BlocksInv,
         \/ \E b \in Blocks : T1JobFails(b)
         \/ T1Submitted \/ T1LoopEnds \/ T1Wait
  PROVE  BlocksInv'
<1> USE DEF AtBlock, NeedsJob, MainAt, poolState, callState, blockState, dwtState
<1>1. next \in Nat /\ (pc \in InTier1 => Tier1Inv)
  BY DEF BlocksInv, TypeOK
<1>2. ASSUME NEW b \in Blocks, T1JobFails(b)
      PROVE  BlocksInv'
  <2>1. pc = "t1" /\ pc' = "t1_end" /\ ret' = FALSE /\ next' = next
    BY <1>2 DEF T1JobFails
  <2>2. UNCHANGED <<submitted, done, call, window, used, whole, segs, tile_data, decoded_data,
                    refused>>
    BY <1>2 DEF T1JobFails
  <2> QED
    BY <2>1, <2>2, BlocksMove DEF InTier1, Handled
<1>3. CASE T1Submitted
  <2>1. UNCHANGED <<submitted, done, call, window, used, whole, segs, tile_data, decoded_data,
                    refused, ret>>
    BY <1>3 DEF T1Submitted
  <2>2. /\ pc = "t1_submitted"
        /\ \/ ret /\ pc' = "t1" /\ next' = next + 1
           \/ ~ret /\ pc' = "t1_end" /\ next' = next
    BY <1>3 DEF T1Submitted
  <2>3. \A b \in Blocks : Handled(b)' => Handled(b)
    BY <1>1, <2>2 DEF Handled, Blocks
  <2> QED
    BY <2>1, <2>2, <2>3, BlocksMove DEF InTier1
<1>4. CASE T1LoopEnds
  <2>1. UNCHANGED <<submitted, done, call, window, used, whole, segs, tile_data, decoded_data,
                    refused, ret, next>>
    BY <1>4 DEF T1LoopEnds
  <2>2. pc = "t1" /\ pc' = "t1_end" /\ (ret => next \notin Blocks)
    BY <1>4 DEF T1LoopEnds, GoesOn
  <2>3. ret => next > NumBlocks
    BY <1>1, <2>2, ConstantTypes DEF Blocks, Tier1Inv, InTier1
  <2> QED
    BY <2>1, <2>2, <2>3, BlocksMove DEF InTier1, Handled
<1>5. CASE T1Wait
  <2>1. UNCHANGED <<submitted, done, call, window, used, whole, segs, tile_data, decoded_data,
                    refused, ret, next>>
    BY <1>5 DEF T1Wait, Pool!WaitFor
  <2>2. pc = "t1_end" /\ pc' = "t1_wait"
    BY <1>5 DEF T1Wait
  <2>3. ret => next > NumBlocks
    BY <1>1, <2>2 DEF Tier1Inv, InTier1
  <2> QED
    BY <2>1, <2>2, <2>3, BlocksMove DEF InTier1, Handled
<1> QED
  BY <1>2, <1>3, <1>4, <1>5

\* A call that goes on to the transforms has its samples.
LEMMA BlocksReturn ==
  ASSUME TypeOK, JobsInv, BlocksInv, T1Returns
  PROVE  BlocksInv'
<1>1. /\ pc = "t1_wait" /\ Pool!Outstanding = {} /\ Tier1Inv
      /\ UNCHANGED <<call, window, used, whole, tile_data, decoded_data, refused>>
      /\ pc' \in {"failed", "dwt", "window"}
      /\ pc' # "failed" => ret
  BY NoneLeft DEF T1Returns, BlocksInv, callState, blockState
<1>2. CASE pc' = "failed"
  BY <1>2 DEF BlocksInv, Tier1Inv, KeptInv, InTier1, InWavelet, InPass
<1>3. CASE ret
  <2>1. /\ \A b \in Blocks : Handled(b)
        /\ Selected \subseteq Blocks
    <3>1. next > NumBlocks /\ next \in Nat /\ NumBlocks \in Nat
      BY <1>1, <1>3, ConstantTypes DEF Tier1Inv, InTier1, TypeOK
    <3>2. \A b \in Blocks : Handled(b)
      BY <3>1 DEF Handled, Blocks
    <3> QED
      BY <3>2 DEF TypeOK, Selected
  <2>2. \A b \in Selected : refused \/ Sample(b) = "coef"
    BY <1>1, <1>3, <2>1 DEF Tier1Inv, InTier1
  <2>3. AllSamples' \/ refused'
    BY <1>1, <2>2 DEF AllSamples, Sample, Selected
  <2>4. \A b \in Blocks : decoded_data[b] # "null" =>
          decoded_data[b] = "coef" /\ (CompOf[b] \in used => b \in window)
    BY <1>1, <1>3, <2>1 DEF Tier1Inv, InTier1, Selected
  <2> QED
    BY <1>1, <2>3, <2>4 DEF BlocksInv, Tier1Inv, KeptInv, InTier1, InWavelet, InPass
<1> QED
  BY <1>1, <1>2, <1>3

\* The transforms leave the blocks alone.
LEMMA BlocksAfter ==
  ASSUME JobsInv, BlocksInv, pc \in InWavelet \cup {"window", "finish"},
         pc' \in InWavelet \cup {"window", "finish", "failed", "idle"},
         UNCHANGED <<call, window, used, whole, tile_data, decoded_data>>,
         refused => refused'
  PROVE  BlocksInv'
<1>1. /\ AllSamples \/ refused
      /\ \A b \in Blocks : decoded_data[b] # "null" =>
           decoded_data[b] = "coef" /\ (CompOf[b] \in used => b \in window)
  BY DEF JobsInv, BlocksInv, KeptInv, InWavelet, InPass
<1>2. AllSamples' <=> AllSamples
  BY DEF AllSamples, Selected
<1> QED
  BY <1>1, <1>2 DEF BlocksInv, Tier1Inv, KeptInv, InTier1, InWavelet, InPass

(* All the steps of opj_tcd_decode_tile.                                  *)
LEMMA BlocksMain ==
  ~PackedHeaders /\ TypeOK /\ OfItsStep /\ JobsInv /\ BlocksInv /\ MainNext => BlocksInv'
<1> SUFFICES ASSUME ~PackedHeaders, TypeOK, OfItsStep, JobsInv, BlocksInv, MainNext
             PROVE  BlocksInv'
  OBVIOUS
<1> USE DEF MainAt, poolState, callState, blockState, dwtState
<1>1. CASE TileFails
  BY <1>1 DEF TileFails, BlocksInv, Tier1Inv, KeptInv, InTier1, InWavelet, InPass
<1>2. CASE DwtBegins \/ DwtInline \/ DwtSubmit \/ DwtSubmitFails
  BY <1>2, BlocksAfter DEF DwtBegins, DwtInline, DwtSubmit, DwtSubmitFails, InWavelet, InPass
<1>3. CASE DwtMemFails \/ DwtJobFails \/ DwtWait \/ DwtReturns \/ DwtEnds
  BY <1>3, BlocksAfter DEF DwtMemFails, DwtJobFails, DwtWait, DwtReturns, DwtEnds, InWavelet, InPass
<1>4. CASE WindowSynthesis \/ FinishFails \/ Finish
  BY <1>4, BlocksAfter DEF WindowSynthesis, FinishFails, Finish
<1> QED
  BY <1>1, <1>2, <1>3, <1>4, BlocksT2, BlocksTier1, BlocksTier1Ends, BlocksReturn DEF MainNext

(* A block's job touches its block only, while tier 1 goes on.             *)
LEMMA BlocksJob ==
  ASSUME TypeOK, OfItsStep, JobsInv, PassInv, BlocksInv, NEW b \in Blocks, BlockNext(b)
  PROVE  BlocksInv'
<1> USE DEF JobReturns, InJob
<1>1. /\ UNCHANGED <<pc, next, call, window, used, whole, segs, refused>>
      /\ Job(0, b) \in running
      /\ \/ UNCHANGED poolState
         \/ Pool!Finish(Job(0, b))
      /\ ret' => ret
      /\ \A c \in Blocks \ {b} :
           decoded_data'[c] = decoded_data[c] /\ tile_data'[c] = tile_data[c]
  BY DEF BlockNext, T1Alloc, T1AllocFails, T1GiveUp, T1GoOn, T1Decode, T1DecodeFails, callState,
         TypeOK
<1>2. /\ Job(0, b) \in Pool!Outstanding /\ pc \in InTier1 /\ Tier1Inv /\ pc' \in InTier1
  <2>1. Job(0, b) \in Pool!Outstanding
    BY <1>1 DEF JobsInv
  <2>2. pc \in InPass => pass > 0
    BY DEF PassInv
  <2>3. pc \in InTier1
    BY <2>1, <2>2 DEF OfItsStep, Job
  <2> QED
    BY <1>1, <2>1, <2>3 DEF BlocksInv
<1>3. /\ b \in Selected /\ segs[b] /\ Selected \subseteq Blocks /\ Selected' = Selected
      /\ \A c : Handled(c)' = Handled(c) /\ Job(0, c)' = Job(0, c)
      /\ whole => \A c \in Blocks : decoded_data[c] \in {"null", "coef"}
  <2>1. b \in Selected
    BY <1>2 DEF Tier1Inv
  <2>2. segs[b]
    BY <1>2, <2>1 DEF Tier1Inv, Selected
  <2>3. whole => \A c \in Blocks : decoded_data[c] \in {"null", "coef"}
    BY <1>2 DEF BlocksInv, KeptInv
  <2>4. \A c : Handled(c)' = Handled(c) /\ Job(0, c)' = Job(0, c)
    BY <1>1 DEF Handled, Job
  <2> QED
    BY <1>1, <2>1, <2>2, <2>3, <2>4 DEF Selected, TypeOK
<1>4. \A c \in Blocks \ {b} : Job(0, c) \in Pool!Outstanding' <=> Job(0, c) \in Pool!Outstanding
  <2>1. \A c \in Blocks \ {b} : Job(0, c) # Job(0, b)
    BY DEF Job
  <2> QED
    BY <1>1, <2>1 DEF poolState, Pool!Finish, Pool!Outstanding
<1>5. ret' => \/ Job(0, b) \in Pool!Outstanding'
              \/ Sample(b)' = "coef" /\ decoded_data'[b] \in {"null", "coef"}
  <2>1. CASE T1Decode(b)
    BY <1>1, <1>3, <2>1 DEF T1Decode, Samples, Sample, TypeOK
  <2>2. CASE T1Alloc(b) \/ T1GoOn(b)
    BY <1>2, <2>2 DEF T1Alloc, T1GoOn, poolState, Pool!Outstanding
  <2>3. CASE T1AllocFails(b) \/ T1GiveUp(b) \/ T1DecodeFails(b)
    BY <2>3 DEF T1AllocFails, T1GiveUp, T1DecodeFails
  <2> QED
    BY <2>1, <2>2, <2>3 DEF BlockNext
<1>6. whole => \A c \in Blocks : decoded_data'[c] \in {"null", "coef"}
  <2>1. whole => decoded_data'[b] \in {"null", "coef"}
    BY <1>3 DEF BlockNext, T1Alloc, T1AllocFails, T1GiveUp, T1GoOn, T1Decode, T1DecodeFails,
                TypeOK
  <2> QED
    BY <1>1, <1>3, <2>1
<1>7. next' > 0 /\ \A c \in window' : segs'[c]
  BY <1>1, <1>2 DEF Tier1Inv
<1>8. ret' /\ pc' \in {"t1_end", "t1_wait"} => next' > NumBlocks
  BY <1>1, <1>2 DEF Tier1Inv
<1>9. pc' = "t1_submitted" => next' \in Blocks
  BY <1>1, <1>2 DEF Tier1Inv
<1>10. \A c \in Blocks : Job(0, c)' \in Pool!Outstanding' => c \in Selected'
  BY <1>2, <1>3, <1>4 DEF Tier1Inv
<1>11. \A c \in Blocks : ret' =>
         decoded_data'[c] \in {"null", "coef"} \/ Job(0, c)' \in Pool!Outstanding'
  BY <1>1, <1>2, <1>3, <1>4, <1>5 DEF Tier1Inv
<1>12. \A c \in Blocks :
         Handled(c)' /\ c \notin Selected' /\ CompOf[c] \in used' => decoded_data'[c] = "null"
  BY <1>1, <1>2, <1>3 DEF Tier1Inv
<1>13. \A c \in Selected' : Handled(c)' /\ ret' =>
         refused' \/ Sample(c)' = "coef" \/ Job(0, c)' \in Pool!Outstanding'
  <2> SUFFICES ASSUME NEW c \in Selected, Handled(c), ret', c # b
               PROVE  refused' \/ Sample(c)' = "coef" \/ Job(0, c) \in Pool!Outstanding'
    BY <1>3, <1>5
  <2>1. c \in Blocks \ {b}
    BY <1>3
  <2>2. refused \/ Sample(c) = "coef" \/ Job(0, c) \in Pool!Outstanding
    BY <1>1, <1>2 DEF Tier1Inv
  <2>3. Sample(c)' = Sample(c)
    BY <1>1, <2>1 DEF Sample
  <2> QED
    BY <1>1, <1>4, <2>1, <2>2, <2>3
<1>14. Tier1Inv'
  BY <1>7, <1>8, <1>9, <1>10, <1>11, <1>12, <1>13 DEF Tier1Inv
<1>15. KeptInv'
  BY <1>1, <1>2, <1>6 DEF KeptInv, InTier1, InWavelet, InPass
<1> QED
  BY <1>14, <1>15 DEF BlocksInv

(* All the steps of the jobs.                                             *)
LEMMA BlocksWorker ==
  TypeOK /\ OfItsStep /\ JobsInv /\ PassInv /\ BlocksInv /\ WorkerNext => BlocksInv'
<1> SUFFICES ASSUME TypeOK, OfItsStep, JobsInv, PassInv, BlocksInv, WorkerNext
             PROVE  BlocksInv'
  OBVIOUS
<1>1. CASE JobStarts
  <2>1. /\ UNCHANGED <<callState, blockState, dwtState, pc, next>>
        /\ Pool!Outstanding' = Pool!Outstanding
    BY <1>1 DEF JobStarts, Pool!Start, Pool!Outstanding
  <2>2. \A c : /\ Handled(c)' = Handled(c) /\ Job(0, c)' = Job(0, c) /\ Sample(c)' = Sample(c)
    BY <2>1 DEF Handled, Job, Sample, callState, blockState
  <2>3. Selected' = Selected /\ (AllSamples' <=> AllSamples)
    BY <2>1 DEF Selected, AllSamples, callState, blockState
  <2>4. Tier1Inv'
    BY <2>1, <2>2, <2>3 DEF BlocksInv, Tier1Inv, callState, blockState
  <2>5. KeptInv'
    BY <2>1, <2>3 DEF BlocksInv, KeptInv, callState, blockState
  <2> QED
    BY <2>4, <2>5 DEF BlocksInv
<1>2. ASSUME NEW k \in 0..(NumJobs - 1), DwtJob(k)
      PROVE  BlocksInv'
  <2>1. /\ UNCHANGED <<callState, blockState, pc>>
        /\ Job(pass, k) \in Pool!Outstanding /\ pass > 0
    BY <1>2 DEF DwtJob, JobsInv
  <2>2. pc \in InPass
    BY <2>1 DEF OfItsStep, Job
  <2> QED
    BY <2>1, <2>2, BlocksAfter DEF InWavelet, callState, blockState
<1> QED
  BY <1>1, <1>2, BlocksJob DEF WorkerNext

-----------------------------------------------------------------------------
(* What the pool's client does, action by action.                          *)
LEMMA ClientCall == JobsInv /\ ClientInv /\ TypeOK /\ CallNext => ClientInv'
<1> SUFFICES ASSUME JobsInv, ClientInv, TypeOK, CallNext
             PROVE  ClientInv'
  OBVIOUS
<1>1. /\ pc = "idle" /\ pc' = "t2" /\ call' = call + 1 /\ UNCHANGED <<submitted, phase>>
  BY DEF CallNext, DecodeWhole, DecodeWindow, MainAt, poolState
<1>2. \A j \in submitted : j[1] \in Nat /\ j[1] <= call /\ call \in Nat
  BY ConstantTypes DEF JobsInv, Jobs, TypeOK
<1>3. \A j \in submitted' : j[1] # call'
  BY <1>1, <1>2
<1> QED
  BY <1>1, <1>3 DEF ClientInv

(* The steps of opj_tcd_decode_tile.                                      *)
LEMMA ClientMain ==
  TypeOK /\ OfItsStep /\ JobsInv /\ ClientInv /\ MainNext => ClientInv'
<1> SUFFICES ASSUME TypeOK, OfItsStep, JobsInv, ClientInv, MainNext
             PROVE  ClientInv'
  OBVIOUS
<1> USE DEF MainAt, poolState, callState, blockState, dwtState
<1>1. /\ next \in Nat /\ pass \in Nat
      /\ \A j \in submitted : j[3] \in Nat /\ j[2] \in Nat
  BY ConstantTypes DEF TypeOK, JobsInv, Jobs
<1>2. CASE TileFails \/ T2Decode
  BY <1>2 DEF TileFails, T2Decode, ClientInv, InPass
<1>3. ASSUME NEW b \in Blocks,
             T1Discard(b) \/ T1Reuse(b) \/ T1Submit(b) \/ T1SubmitFails(b) \/ T1JobFails(b)
      PROVE  ClientInv'
  <2> USE DEF AtBlock, NeedsJob
  <2>1. CASE T1Discard(b) \/ T1Reuse(b)
    BY <1>1, <2>1 DEF T1Discard, T1Reuse, ClientInv, InPass
  <2>2. CASE T1SubmitFails(b) \/ T1JobFails(b)
    BY <1>1, <2>2 DEF T1SubmitFails, T1JobFails, ClientInv, InPass
  <2>3. CASE T1Submit(b)
    <3>1. /\ pc = "t1" /\ pc' = "t1_submitted" /\ next = b /\ UNCHANGED <<next, call, phase>>
          /\ submitted' = submitted \cup {<<call, 0, b>>}
      BY <2>3 DEF T1Submit, Pool!Submit, Job
    <3> QED
      BY <1>1, <3>1 DEF ClientInv, InPass
  <2> QED
    BY <1>3, <2>1, <2>2, <2>3
<1>4. CASE T1Submitted \/ T1LoopEnds
  BY <1>1, <1>4 DEF T1Submitted, T1LoopEnds, ClientInv, InPass
<1>5. CASE T1Wait \/ T1Returns
  BY <1>5 DEF T1Wait, T1Returns, Pool!WaitFor, Pool!WaitReturns, ClientInv, InPass
<1>6. CASE DwtBegins
  <2>1. /\ pc = "dwt" /\ pc' \in {"dwt_inline", "dwt_jobs"} /\ pass' = pass + 1
        /\ UNCHANGED <<submitted, phase, call>>
    BY <1>6 DEF DwtBegins
  <2>2. \A j \in submitted : j[1] = call => j[2] <= pass
    BY <2>1 DEF JobsInv, InWavelet
  <2> QED
    BY <1>1, <2>1, <2>2 DEF ClientInv, InPass
<1>7. CASE DwtInline \/ DwtSubmitFails
  BY <1>1, <1>7 DEF DwtInline, DwtSubmitFails, ClientInv, InPass
<1>8. CASE DwtSubmit
  <2>1. /\ pc = "dwt_jobs" /\ pc' = pc /\ next' = next + 1 /\ UNCHANGED <<pass, call, phase>>
        /\ submitted' = submitted \cup {<<call, pass, next>>}
    BY <1>8 DEF DwtSubmit, Pool!Submit, Job
  <2> QED
    BY <1>1, <2>1 DEF ClientInv, InPass
<1>9. CASE DwtJobFails \/ DwtWait \/ DwtReturns
  BY <1>9 DEF DwtJobFails, DwtWait, DwtReturns, Pool!WaitFor, Pool!WaitReturns, ClientInv, InPass
<1>10. CASE DwtMemFails \/ DwtEnds \/ WindowSynthesis \/ FinishFails \/ Finish
  BY <1>10 DEF DwtMemFails, DwtEnds, WindowSynthesis, FinishFails, Finish, ClientInv, InPass
<1> QED
  BY <1>2, <1>3, <1>4, <1>5, <1>6, <1>7, <1>8, <1>9, <1>10 DEF MainNext

(* Jobs submit no jobs.                                                   *)
LEMMA ClientWorker == ClientInv /\ WorkerNext => ClientInv'
<1> SUFFICES ASSUME ClientInv, WorkerNext
             PROVE  ClientInv'
  OBVIOUS
<1>1. UNCHANGED <<submitted, phase, pc, next, call, pass>>
  BY DEF WorkerNext, JobStarts, BlockNext, T1Alloc, T1AllocFails, T1GiveUp, T1GoOn, T1Decode,
         T1DecodeFails, DwtJob, JobReturns, InJob, Pool!Start, Pool!Finish, poolState, callState,
         dwtState
<1> QED
  BY <1>1 DEF ClientInv

(* Only opj_thread_pool_submit_job refuses a job.                          *)
LEMMA RefusedStep ==
  ASSUME "submit" \notin Faults, ~refused, Next
  PROVE  ~refused'
<1> USE DEF callState
<1>1. CASE CallNext
  BY <1>1 DEF CallNext, DecodeWhole, DecodeWindow
<1>2. CASE MainNext
  BY <1>2 DEF MainNext, TileFails, T2Decode, T1Discard, T1Reuse, T1Submit, T1SubmitFails,
              T1JobFails, T1Submitted, T1LoopEnds, T1Wait, T1Returns, DwtMemFails, DwtBegins, DwtInline,
              DwtSubmit, DwtSubmitFails, DwtJobFails, DwtWait, DwtReturns, DwtEnds,
              WindowSynthesis, FinishFails, Finish
<1>3. CASE WorkerNext
  BY <1>3 DEF WorkerNext, JobStarts, BlockNext, T1Alloc, T1AllocFails, T1GiveUp, T1GoOn,
              T1Decode, T1DecodeFails, DwtJob
<1>4. CASE Over
  BY <1>4 DEF Over, vars
<1> QED
  BY <1>1, <1>2, <1>3, <1>4 DEF Next

-----------------------------------------------------------------------------
(* At the start there are no jobs.                                         *)
LEMMA InitInv == Init => IInv
<1> SUFFICES ASSUME Init
             PROVE  IInv
  OBVIOUS
<1>1. TypeOK
  <2>1. headers_left \in BOOLEAN
    BY Zenon, TileDecodeAssumption DEF Init, TileDecodeAssumption
  <2>2. segs \in [Blocks -> BOOLEAN] /\ ret \in BOOLEAN /\ whole \in BOOLEAN /\ refused \in BOOLEAN
    BY DEF Init
  <2>3. /\ threads \in Threads /\ pc = "idle" /\ call = 0 /\ window = {} /\ used = {}
        /\ next = 1 /\ pass = 0
        /\ decoded_data = [b \in Blocks |-> "null"] /\ tile_data = [b \in Blocks |-> "none"]
        /\ jpc = [b \in Blocks |-> "none"] /\ swept = [l \in LineNos |-> 0]
    BY DEF Init
  <2> QED
    BY <2>1, <2>2, <2>3, ConstantTypes DEF TypeOK
<1> USE ConstantTypes DEF Init, Pool!PoolInit, Pool!Outstanding
<1>2. OfItsStep
  BY DEF OfItsStep
<1>3. JobsInv
  BY FS_EmptySet DEF JobsInv, InTier1, InWavelet, InPass
<1>4. PassInv
  BY DEF PassInv, PassExact, InPass
<1>5. Tier1Inv /\ KeptInv
  BY DEF Tier1Inv, KeptInv, InTier1, InWavelet, InPass
<1>6. ClientInv /\ ~refused
  BY DEF ClientInv, InPass
<1> QED
  BY <1>1, <1>2, <1>3, <1>4, <1>5, <1>6 DEF IInv

(* Every step keeps the invariant.                                        *)
LEMMA NextInv == IInv /\ [Next]_vars => IInv'
<1> SUFFICES ASSUME IInv, [Next]_vars
             PROVE  IInv'
  OBVIOUS
<1>1. /\ TypeOK /\ OfItsStep /\ JobsInv /\ PassInv /\ ClientInv
      /\ "submit" \notin Faults => ~refused
      /\ ~PackedHeaders => BlocksInv
  BY DEF IInv, BlocksInv
<1>2. ASSUME UNCHANGED vars
      PROVE  IInv'
  <2> USE <1>1, <1>2 DEF vars, poolState, callState, blockState, dwtState
  <2>1. TypeOK'
    BY DEF TypeOK
  <2>2. OfItsStep' /\ JobsInv' /\ ClientInv'
    BY DEF OfItsStep, JobsInv, ClientInv, Pool!Outstanding
  <2>3. PassInv'
    BY DEF PassInv, PassExact, NumJobs, SliceOf, Job
  <2>4. ~PackedHeaders => BlocksInv'
    <3>1. Pool!Outstanding' = Pool!Outstanding /\ \A c : Handled(c)' <=> Handled(c)
      BY DEF Pool!Outstanding, Handled
    <3>2. Selected' = Selected /\ \A c : Sample(c)' = Sample(c) /\ Job(0, c)' = Job(0, c)
      BY DEF Selected, Sample, Job
    <3>3. AllSamples' <=> AllSamples
      BY DEF AllSamples, Selected
    <3>4. Tier1Inv => Tier1Inv'
      BY <3>1, <3>2 DEF Tier1Inv
    <3>5. KeptInv => KeptInv'
      BY <3>1, <3>3 DEF KeptInv
    <3> QED
      BY <3>4, <3>5 DEF BlocksInv
  <2> QED
    BY <2>1, <2>2, <2>3, <2>4 DEF IInv, BlocksInv
<1>3. CASE Next
  <2>1. TypeOK'
    BY <1>1, TypeStep
  <2>2. CASE CallNext
    BY <1>1, <1>3, <2>1, <2>2, JobsCall, PassCall, ClientCall, RefusedStep, BlocksCall
       DEF IInv, BlocksInv
  <2>3. CASE MainNext
    BY <1>1, <1>3, <2>1, <2>3, JobsMain, PassMain, ClientMain, RefusedStep, BlocksMain
       DEF IInv, BlocksInv
  <2>4. CASE WorkerNext
    BY <1>1, <1>3, <2>1, <2>4, JobsWorker, PassWorker, ClientWorker, RefusedStep, BlocksWorker
       DEF IInv, BlocksInv
  <2>5. CASE Over
    BY <1>2, <2>5 DEF Over
  <2> QED
    BY <1>3, <2>2, <2>3, <2>4, <2>5 DEF Next
<1> QED
  BY <1>2, <1>3

(* So it always holds.                                                    *)
LEMMA Invariance == Spec => []IInv
BY InitInv, NextInv, PTL DEF Spec

(* opj_t1_decode_cblks and opj_dwt_decode_tile, however they end, leave no *)
(* job behind: not in the next pass, not in the next call.                 *)
THEOREM StepsAwaited == Spec => []NoJobOutlivesItsStep
<1>1. IInv => NoJobOutlivesItsStep
  BY DEF IInv, OfItsStep, NoJobOutlivesItsStep
<1> QED
  BY <1>1, Invariance, PTL

(* opj_dwt_decode_tile: however many threads a pass is cut for, and in     *)
(* whatever order its jobs run, each line is transformed once.             *)
THEOREM PassCorrect == Spec => []PassExact
<1>1. IInv => PassExact
  BY DEF IInv, PassInv
<1> QED
  BY <1>1, Invariance, PTL

(* opj_t1_clbl_decode_processor and the flag its jobs share: without       *)
(* packed packet headers, a call whose submissions the pool accepted and   *)
(* that succeeds has every block it needs.                                 *)
THEOREM DecodingCorrect ==
  ASSUME ~PackedHeaders
  PROVE  Spec => []DecodedComplete
<1>1. IInv => DecodedComplete
  BY DEF IInv, KeptInv, DecodedComplete
<1> QED
  BY <1>1, Invariance, PTL

(* With a pool that accepts every job, that is what a caller may expect.   *)
THEOREM SuccessCorrect ==
  ASSUME ~PackedHeaders, "submit" \notin Faults
  PROVE  Spec => []SuccessIsComplete
<1>1. IInv => SuccessIsComplete
  BY DEF IInv, KeptInv, SuccessIsComplete
<1> QED
  BY <1>1, Invariance, PTL

(* The code-blocks kept for the next area: decoded ones, and of the        *)
(* components asked for only those of this area.                           *)
THEOREM KeptCorrect ==
  ASSUME ~PackedHeaders
  PROVE  Spec => []KeptBlocksSound
<1>1. IInv => KeptBlocksSound
  BY DEF IInv, KeptInv, KeptBlocksSound
<1> QED
  BY <1>1, Invariance, PTL

\* The pool takes the job that main is about to submit, and main waits in the
\* pool exactly when it is in opj_thread_pool_wait_completion.
PoolReady ==
  /\ pc = "t1" => phase = "open" /\ Job(0, next) \notin submitted
  /\ pc = "dwt_jobs" => phase = "open" /\ Job(pass, next) \notin submitted
  /\ pc = "t1_end" => phase = "open"
  /\ phase = "waiting" <=> pc \in {"t1_wait", "dwt_wait", "dwt_fail"}

(* The guards of JobPool never stop main where the code goes on: it never  *)
(* submits a job twice, and never from inside a wait.                      *)
THEOREM NeverRefused == Spec => []PoolReady
<1>1. IInv => PoolReady
  <2> SUFFICES ASSUME IInv
               PROVE  PoolReady
    OBVIOUS
  <2>1. next \in Nat /\ ClientInv
    BY DEF IInv, TypeOK
  <2> QED
    BY <2>1 DEF ClientInv, PoolReady, Job, InPass
<1> QED
  BY <1>1, Invariance, PTL

-----------------------------------------------------------------------------
(* Main and the jobs use the pool as its specification allows.             *)
LEMMA PoolSteps == IInv /\ [Next]_vars => [Pool!PoolNext]_(Pool!poolVars)
<1> SUFFICES ASSUME IInv, [Next]_vars
             PROVE  [Pool!PoolNext]_(Pool!poolVars)
  OBVIOUS
<1> USE DEF poolState, callState, blockState, dwtState
<1>1. /\ submitted \subseteq Jobs /\ running \subseteq Jobs
      /\ TypeOK /\ call \in Nat /\ (pc \notin {"idle", "failed"} => call \in 1..MaxCalls)
      /\ 0 \in 0..Passes
  BY ConstantTypes DEF IInv, JobsInv, TypeOK, Pool!Outstanding
<1>2. ASSUME NEW j \in Jobs, Pool!Submit(j) \/ Pool!Start(j) \/ Pool!Finish(j)
      PROVE  Pool!PoolNext
  BY <1>2 DEF Pool!PoolNext, Jobs
<1>3. ASSUME Pool!WaitFor(0) \/ Pool!WaitReturns
      PROVE  Pool!PoolNext
  BY <1>3 DEF Pool!PoolNext
<1>4. ASSUME UNCHANGED poolState
      PROVE  UNCHANGED Pool!poolVars
  BY <1>4 DEF Pool!poolVars
<1>5. CASE CallNext
  BY <1>4, <1>5 DEF CallNext, DecodeWhole, DecodeWindow
<1>6. CASE MainNext
  <2> USE DEF MainAt, AtBlock, NeedsJob
  <2>1. ASSUME NEW b \in Blocks, T1Submit(b)
        PROVE  Pool!PoolNext
    <3>1. Pool!Submit(Job(0, b)) /\ Job(0, b) \in Jobs
      BY <1>1, <2>1 DEF T1Submit, Job, Jobs, Blocks
    <3> QED
      BY <1>2, <3>1
  <2>2. ASSUME NEW b \in Blocks, T1Discard(b) \/ T1Reuse(b) \/ T1SubmitFails(b) \/ T1JobFails(b)
        PROVE  UNCHANGED poolState
    BY <2>2 DEF T1Discard, T1Reuse, T1SubmitFails, T1JobFails
  <2>3. CASE T1Wait \/ T1Returns \/ DwtJobFails \/ DwtWait \/ DwtReturns
    BY <1>3, <2>3 DEF T1Wait, T1Returns, DwtJobFails, DwtWait, DwtReturns
  <2>4. CASE DwtSubmit
    <3>1. Pool!Submit(Job(pass, next)) /\ Job(pass, next) \in Jobs
      BY <1>1, <2>4 DEF DwtSubmit, Job, Jobs, TypeOK
    <3> QED
      BY <1>2, <3>1
  <2>5. CASE \/ TileFails \/ T2Decode \/ T1Submitted \/ T1LoopEnds \/ DwtMemFails \/ DwtBegins
             \/ DwtInline \/ DwtSubmitFails \/ DwtEnds \/ WindowSynthesis \/ FinishFails \/ Finish
    BY <1>4, <2>5 DEF TileFails, T2Decode, T1Submitted, T1LoopEnds, DwtMemFails, DwtBegins,
                      DwtInline, DwtSubmitFails, DwtEnds, WindowSynthesis, FinishFails, Finish
  <2> QED
    BY <1>4, <1>6, <2>1, <2>2, <2>3, <2>4, <2>5 DEF MainNext
<1>7. CASE WorkerNext
  <2>1. CASE JobStarts
    BY <1>1, <1>2, <2>1 DEF JobStarts
  <2>2. ASSUME NEW b \in Blocks, BlockNext(b)
        PROVE  UNCHANGED poolState \/ Pool!PoolNext
    <3>1. Job(0, b) \in running /\ (UNCHANGED poolState \/ Pool!Finish(Job(0, b)))
      BY <2>2 DEF BlockNext, T1Alloc, T1AllocFails, T1GiveUp, T1GoOn, T1Decode, T1DecodeFails,
                  JobReturns, InJob
    <3> QED
      BY <1>1, <1>2, <3>1
  <2>3. ASSUME NEW k \in 0..(NumJobs - 1), DwtJob(k)
        PROVE  Pool!PoolNext
    BY <1>1, <1>2, <2>3 DEF DwtJob
  <2> QED
    BY <1>4, <1>7, <2>1, <2>2, <2>3 DEF WorkerNext
<1>8. CASE UNCHANGED vars \/ Over
  BY <1>4, <1>8 DEF Over, vars
<1> QED
  BY <1>5, <1>6, <1>7, <1>8 DEF Next

(* Decoding a tile is a correct use of the thread pool: seen from the pool,*)
(* it is a behaviour of JobPool, the specification ThreadPool implements.  *)
THEOREM ClientOfThePool == Spec => Pool!PoolSpec
<1>1. Init => Pool!PoolInit
  BY DEF Init
<1> QED
  BY <1>1, Invariance, PoolSteps, PTL DEF Spec, Pool!PoolSpec

------------------------------------------------------------------------------
(* Lines of samples and their transforms: dwt.c, mct.c.                    *)

\* A place is a number, even or odd.
LEMMA PlaceIsInt ==
  ASSUME NEW n \in Nat, NEW p \in Places(n)
  PROVE  p \in Int /\ p % 2 \in {0, 1}
  BY Z3 DEF Places

\* Mirrored or not, a neighbour is a place of the line, of the other parity
\* and not farther away.
LEMMA NearPlace ==
  ASSUME NEW n \in Nat, n > 1, NEW p \in Places(n), NEW d \in {-1, 1}
  PROVE  /\ Near(n, p, d) \in Places(n)
         /\ Near(n, p, d) % 2 # p % 2
         /\ Near(n, p, d) - p \in {-1, 1}
<1>1. CASE p + d \in Places(n)
  BY <1>1, Z3 DEF Near, Places
<1>2. CASE p + d \notin Places(n)
  BY <1>2, Z3 DEF Near, Places
<1> QED
  BY <1>1, <1>2

\* What the lifting adds is an integer.
LEMMA StepsAreInt ==
  ASSUME NEW n \in Nat, n > 1, NEW a \in [Places(n) -> Int], NEW p \in Places(n)
  PROVE  Predicted(a, n, p) \in Int /\ Updated(a, n, p) \in Int
<1>1. a[Near(n, p, -1)] \in Int /\ a[Near(n, p, 1)] \in Int
  BY NearPlace
<1> QED
  BY <1>1 DEF Predicted, Updated

\* The lifting of a sample depends on its two neighbours only.
LEMMA StepsAgree ==
  ASSUME NEW n, NEW a, NEW b, NEW p,
         \A d \in {-1, 1} : a[Near(n, p, d)] = b[Near(n, p, d)]
  PROVE  Predicted(a, n, p) = Predicted(b, n, p) /\ Updated(a, n, p) = Updated(b, n, p)
  BY DEF Predicted, Updated

\* The samples of a line of several, transformed.
LEMMA ForwardHigh ==
  ASSUME NEW n \in Nat, n > 1, NEW cas \in {0, 1}, NEW a \in [Places(n) -> Int],
         NEW p \in Places(n), p % 2 # cas
  PROVE  ForwardLine(a, n, cas)[p] = a[p] - Predicted(a, n, p)
<1>1. LowLifted(HighLifted(a, n, cas), n, cas)[p] = HighLifted(a, n, cas)[p]
  BY DEF LowLifted
<1>2. HighLifted(a, n, cas)[p] = a[p] - Predicted(a, n, p)
  BY DEF HighLifted
<1>3. ForwardLine(a, n, cas) = LowLifted(HighLifted(a, n, cas), n, cas)
  BY DEF ForwardLine
<1> QED
  BY <1>1, <1>2, <1>3

LEMMA ForwardLow ==
  ASSUME NEW n \in Nat, n > 1, NEW cas \in {0, 1}, NEW a \in [Places(n) -> Int],
         NEW p \in Places(n), p % 2 = cas
  PROVE  ForwardLine(a, n, cas)[p] = a[p] + Updated(ForwardLine(a, n, cas), n, p)
<1> DEFINE h == HighLifted(a, n, cas)
           f == LowLifted(h, n, cas)
<1>1. ForwardLine(a, n, cas) = f
  BY DEF ForwardLine
<1>2. \A d \in {-1, 1} : f[Near(n, p, d)] = h[Near(n, p, d)]
  BY NearPlace DEF LowLifted
<1>3. Updated(f, n, p) = Updated(h, n, p)
  BY <1>2, StepsAgree
<1>4. f[p] = h[p] + Updated(h, n, p)
  BY DEF LowLifted
<1>5. h[p] = a[p]
  BY DEF HighLifted
<1> QED
  BY <1>1, <1>3, <1>4, <1>5

LEMMA ForwardType ==
  ASSUME NEW n \in Nat, n > 1, NEW cas \in {0, 1}, NEW a \in [Places(n) -> Int]
  PROVE  ForwardLine(a, n, cas) \in [Places(n) -> Int]
<1> DEFINE h == HighLifted(a, n, cas)
<1>1. h \in [Places(n) -> Int]
  BY StepsAreInt DEF HighLifted
<1>2. \A p \in Places(n) : Updated(h, n, p) \in Int
  BY <1>1, StepsAreInt
<1>3. LowLifted(h, n, cas) \in [Places(n) -> Int]
  BY <1>1, <1>2 DEF LowLifted
<1> QED
  BY <1>3 DEF ForwardLine

(* The synthesis of a part of a line (opj_dwt_decode_partial_1): a sample  *)
(* in the window is right if the coefficients up to two places from it     *)
(* are, and its low neighbours are in the window as well.                  *)
THEOREM WindowSuffices ==
  ASSUME NEW n \in Nat, n > 1, NEW cas \in {0, 1}, NEW a \in [Places(n) -> Int],
         NEW b \in [Places(n) -> Int], NEW low, NEW high, NEW p \in Places(n),
         InWindow(p, cas, low, high),
         \A q \in Places(n) : q - p \in -2..2 => b[q] = ForwardLine(a, n, cas)[q],
         \A q \in Places(n) : q - p \in {-1, 1} /\ q % 2 = cas => InWindow(q, cas, low, high)
  PROVE  InverseIn(b, n, cas, low, high)[p] = a[p]
<1> DEFINE f == ForwardLine(a, n, cas)
           l == LowRestored(b, n, cas, low, high)
<1> HIDE DEF f, l
<1>0. p \in Int /\ p - p \in -2..2 /\ p - p \in -1..1 /\ (p % 2 \in {0, 1})
  BY DEF Places
<1>1. f \in [Places(n) -> Int] /\ \A q \in Places(n) : q - p \in -2..2 => b[q] = f[q]
  BY ForwardType DEF f
<1>2. ASSUME NEW q \in Places(n), q - p \in -1..1, q % 2 = cas, InWindow(q, cas, low, high)
      PROVE  l[q] = a[q]
  <2>1. \A d \in {-1, 1} : Near(n, q, d) \in Places(n) /\ Near(n, q, d) - p \in -2..2
    <3> SUFFICES ASSUME NEW d \in {-1, 1}
                 PROVE  Near(n, q, d) \in Places(n) /\ Near(n, q, d) - p \in -2..2
      OBVIOUS
    <3> DEFINE m == Near(n, q, d)
    <3> HIDE DEF m
    <3>1. m \in Places(n) /\ m - q \in {-1, 1}
      BY NearPlace DEF m
    <3>2. m \in Int /\ q \in Int /\ p \in Int
      BY <3>1, PlaceIsInt
    <3>3. m - p \in -2..2
      BY <1>0, <1>2, <3>1, <3>2
    <3> QED
      BY <3>1, <3>3 DEF m
  <2>2. \A d \in {-1, 1} : b[Near(n, q, d)] = f[Near(n, q, d)]
    BY <1>1, <2>1
  <2>3. Updated(b, n, q) = Updated(f, n, q)
    BY <2>2, StepsAgree
  <2>4. q - p \in -2..2
    BY <1>2
  <2>5. b[q] = a[q] + Updated(f, n, q)
    BY <1>1, <1>2, <2>4, ForwardLow DEF f
  <2>6. Updated(f, n, q) \in Int
    BY <1>1, StepsAreInt
  <2>7. l[q] = b[q] - Updated(b, n, q)
    BY <1>2 DEF LowRestored, l
  <2> QED
    BY <2>3, <2>5, <2>6, <2>7
<1>3. InverseIn(b, n, cas, low, high)[p]
        = IF p % 2 # cas THEN l[p] + Predicted(l, n, p) ELSE l[p]
  BY DEF InverseIn, HighRestored, l
<1>4. CASE p % 2 = cas
  BY <1>0, <1>2, <1>3, <1>4
<1>5. CASE p % 2 # cas
  <2>1. \A d \in {-1, 1} : l[Near(n, p, d)] = a[Near(n, p, d)]
    <3> SUFFICES ASSUME NEW d \in {-1, 1} PROVE l[Near(n, p, d)] = a[Near(n, p, d)]
      OBVIOUS
    <3>1. /\ Near(n, p, d) \in Places(n)
          /\ Near(n, p, d) % 2 # p % 2
          /\ Near(n, p, d) - p \in {-1, 1}
      BY NearPlace
    <3>2. Near(n, p, d) % 2 = cas
      <4>1. Near(n, p, d) % 2 \in {0, 1}
        BY <3>1, PlaceIsInt
      <4> QED
        BY <1>0, <1>5, <3>1, <4>1
    <3>3. InWindow(Near(n, p, d), cas, low, high)
      BY <3>1, <3>2
    <3>4. Near(n, p, d) - p \in -1..1
      BY <3>1
    <3> QED
      BY <1>2, <3>1, <3>2, <3>3, <3>4
  <2>2. Predicted(l, n, p) = Predicted(a, n, p)
    BY <2>1, StepsAgree
  <2>3. b[p] = a[p] - Predicted(a, n, p)
    BY <1>0, <1>1, <1>5, ForwardHigh DEF f
  <2>4. l[p] = b[p]
    BY <1>5 DEF LowRestored, l
  <2>5. Predicted(a, n, p) \in Int
    BY StepsAreInt
  <2> QED
    BY <1>3, <1>5, <2>2, <2>3, <2>4, <2>5
<1> QED
  BY <1>4, <1>5

(* The 5-3 transform of a line is reversible, of any length and at any     *)
(* origin: opj_dwt_decode_1_ undoes                                        *)
(* opj_dwt_encode_and_deinterleave_h_one_row.                              *)
THEOREM LineReversible ==
  ASSUME NEW n \in Nat, NEW cas \in {0, 1}, NEW a \in [Places(n) -> Int]
  PROVE  InverseLine(ForwardLine(a, n, cas), n, cas) = a
<1> DEFINE all == [lo |-> 0, hi |-> n]
           f == ForwardLine(a, n, cas)
<1>1. InverseLine(f, n, cas) = InverseIn(f, n, cas, all, all)
  BY DEF InverseLine
<1>3. InverseIn(f, n, cas, all, all) = [p \in Places(n) |-> InverseIn(f, n, cas, all, all)[p]]
  BY DEF InverseIn, HighRestored
<1>4. ASSUME NEW p \in Places(n) PROVE InverseIn(f, n, cas, all, all)[p] = a[p]
  <2>1. CASE n = 1
    <3>1. f[p] = IF cas = 1 THEN 2 * a[p] ELSE a[p]
      BY <2>1 DEF ForwardLine
    <3>2. InverseIn(f, n, cas, all, all)[p] = IF cas = 1 THEN Halved(f[p]) ELSE f[p]
      BY <2>1 DEF InverseIn
    <3>3. a[p] \in Int
      OBVIOUS
    <3>4. Halved(2 * a[p]) = a[p]
      BY <3>3, Z3 DEF Halved
    <3> QED
      BY <3>1, <3>2, <3>4
  <2>2. CASE n > 1
    <3>1. f \in [Places(n) -> Int]
      BY <2>2, ForwardType
    <3>2. \A q \in Places(n) : InWindow(q, cas, all, all)
      BY Z3 DEF InWindow, Places
    <3> QED
      BY <2>2, <3>1, <3>2, WindowSuffices
  <2>3. n # 0
    BY DEF Places
  <2> QED
    BY <2>1, <2>2, <2>3
<1> QED
  BY <1>1, <1>3, <1>4

(* The reversible colour transform is (opj_mct_encode, opj_mct_decode).    *)
THEOREM MctReversible ==
  ASSUME NEW r \in Int, NEW g \in Int, NEW b \in Int
  PROVE  MctDecode(MctEncode([r |-> r, g |-> g, b |-> b])) = [r |-> r, g |-> g, b |-> b]
<1> DEFINE y == (r + 2 * g + b) \div 4
<1>1. y - ((b - g) + (r - g)) \div 4 = g
  BY Z3
<1>2. MctEncode([r |-> r, g |-> g, b |-> b]) = [y |-> y, u |-> b - g, v |-> r - g]
  BY DEF MctEncode
<1>3. MctDecode([y |-> y, u |-> b - g, v |-> r - g]) = [r |-> (r - g) + g, g |-> g, b |-> (b - g) + g]
  BY <1>1, Zenon DEF MctDecode
<1> QED
  BY <1>2, <1>3

------------------------------------------------------------------------------
(* Tiles and the copy of their samples: opj_intmath.h, j2k.c, tcd.c.       *)

Interval == [lo : Int, hi : Int]
Positive == Nat \ {0}

(* Ceiling division, without a division.                                   *)
LEMMA CeilDivBounds ==
  ASSUME NEW a \in Int, NEW b \in Positive
  PROVE  /\ CeilDiv(a, b) \in Int
         /\ a <= b * CeilDiv(a, b)
         /\ b * CeilDiv(a, b) < a + b
BY DEF CeilDiv, Positive

(* Division, by a multiplication.                                         *)
LEMMA QuotientBounds ==
  ASSUME NEW a \in Nat, NEW b \in Positive
  PROVE  a \div b \in Nat /\ b * (a \div b) <= a /\ a < b * (a \div b) + b
BY DEF Positive

(* Two tiles further on.                                                   *)
LEMMA TwoMore ==
  ASSUME NEW p \in Int, NEW d \in Int
  PROVE  (p + 2) * d = p * d + d + d
<1>1. (p + 2) * d = p * d + 2 * d
  OBVIOUS
<1> QED
  BY <1>1

(* Intervals stay intervals when they are subsampled or reduced.           *)
LEMMA CeilDivMonotone ==
  ASSUME NEW a \in Int, NEW b \in Int, NEW k \in Positive, a <= b
  PROVE  CeilDiv(a, k) <= CeilDiv(b, k)
BY DEF CeilDiv, Positive

(* opj_j2k_update_image_data copies what the source and the destination    *)
(* have in common, all of it and no more, each sample to its coordinate.   *)
THEOREM ClipExact ==
  ASSUME NEW s \in Interval, NEW e \in Interval
  PROVE  /\ Clip(s, e).skip >= 0 /\ Clip(s, e).start >= 0
         /\ s.lo + Clip(s, e).skip = e.lo + Clip(s, e).start
         /\ Clip(s, e).n = Lesser(s.hi, e.hi) - Greater(s.lo, e.lo)
BY DEF Clip, Lesser, Greater, Interval

(* A tile that meets the area never fails to be copied into it: in a       *)
(* component of any subsampling s, reduced by any p, they overlap or touch.*)
THEOREM CopyFits ==
  ASSUME NEW t \in Interval, NEW w \in Interval, NEW s \in Positive, NEW p \in Positive,
         t.lo < t.hi, w.lo < w.hi, t.lo < w.hi, w.lo < t.hi
  PROVE  Clip(Sampled(Sampled(t, s), p), Sampled(Sampled(w, s), p)).n >= 0
<1> DEFINE r(v) == CeilDiv(CeilDiv(v, s), p)
<1>1. ASSUME NEW a \in Int, NEW b \in Int, a <= b
      PROVE  r(a) \in Int /\ r(b) \in Int /\ r(a) <= r(b)
  BY <1>1, CeilDivBounds, CeilDivMonotone
<1>2. /\ Sampled(Sampled(t, s), p) = [lo |-> r(t.lo), hi |-> r(t.hi)]
      /\ Sampled(Sampled(w, s), p) = [lo |-> r(w.lo), hi |-> r(w.hi)]
  BY DEF Sampled
<1>3. /\ r(t.lo) \in Int /\ r(t.hi) \in Int /\ r(w.lo) \in Int /\ r(w.hi) \in Int
      /\ r(t.lo) <= r(t.hi) /\ r(w.lo) <= r(w.hi)
      /\ r(t.lo) <= r(w.hi) /\ r(w.lo) <= r(t.hi)
  <2>1. t.lo \in Int /\ t.hi \in Int /\ w.lo \in Int /\ w.hi \in Int
    BY DEF Interval
  <2>2. t.lo <= t.hi /\ w.lo <= w.hi /\ t.lo <= w.hi /\ w.lo <= t.hi
    BY <2>1
  <2> QED
    BY <1>1, <2>1, <2>2
<1> HIDE DEF r
<1> QED
  BY <1>2, <1>3 DEF Clip, Greater

(* An axis as opj_j2k_read_siz accepts it: the first tile has samples of   *)
(* the image.                                                              *)
Axis ==
  {a \in [lo : Nat, hi : Nat, t0 : Nat, td : Positive] :
     a.t0 <= a.lo /\ a.lo < a.hi /\ a.lo < a.t0 + a.td}

(* There are tiles enough for the image, and the last one is in it.        *)
LEMMA TileBounds ==
  ASSUME NEW a \in Axis
  PROVE  /\ NumTiles(a) \in Positive
         /\ a.hi <= a.t0 + NumTiles(a) * a.td
         /\ a.t0 + NumTiles(a) * a.td < a.hi + a.td
<1>1. /\ a.hi - a.t0 \in Int /\ a.td \in Positive /\ a.hi - a.t0 > 0
      /\ a.hi \in Int /\ a.t0 \in Int
  BY DEF Axis, Positive
<1> DEFINE n == CeilDiv(a.hi - a.t0, a.td)
<1>2. n \in Int /\ a.hi - a.t0 <= a.td * n /\ a.td * n < a.hi - a.t0 + a.td
  BY <1>1, CeilDivBounds
<1>3. a.td * n = n * a.td
  BY <1>1, <1>2 DEF Positive
<1>4. n > 0
  BY <1>1, <1>2 DEF Positive
<1> HIDE DEF n
<1> QED
  <2>1. NumTiles(a) = n
    BY DEF NumTiles, n
  <2> QED
    BY <1>1, <1>2, <1>3, <1>4, <2>1 DEF Positive

(* The tiles make up a component: the first begins where it does, each     *)
(* begins where the one before ends, and the last ends where it does.      *)
THEOREM TilesMakeComponent ==
  ASSUME NEW a \in Axis, NEW s \in Positive
  PROVE  LET tile(p) == Sampled(TileOn(a, p), s)
         IN /\ tile(0).lo = Sampled(a, s).lo
            /\ \A p \in 0..(NumTiles(a) - 2) : tile(p).hi = tile(p + 1).lo
            /\ tile(NumTiles(a) - 1).hi = Sampled(a, s).hi
<1>1. /\ a.lo \in Nat /\ a.hi \in Nat /\ a.t0 \in Nat /\ a.td \in Nat /\ a.td > 0
      /\ a.t0 <= a.lo /\ a.lo < a.hi /\ a.lo < a.t0 + a.td
  BY DEF Axis, Positive
<1>2. /\ NumTiles(a) \in Nat /\ NumTiles(a) > 0
      /\ a.hi <= a.t0 + NumTiles(a) * a.td
      /\ a.t0 + NumTiles(a) * a.td < a.hi + a.td
  BY TileBounds DEF Positive
<1>3. TileOn(a, 0).lo = a.lo
  BY <1>1 DEF TileOn, Greater
<1>4. ASSUME NEW p \in 0..(NumTiles(a) - 2)
      PROVE  TileOn(a, p).hi = TileOn(a, p + 1).lo
  <2>1. (p + 1) * a.td = p * a.td + a.td /\ p * a.td \in Nat
    BY <1>1
  <2>2. (p + 2) * a.td <= NumTiles(a) * a.td
    BY <1>1, <1>2
  <2>3. (p + 2) * a.td = p * a.td + a.td + a.td
    <3>1. p \in Int /\ a.td \in Int
      BY <1>1, <1>2
    <3> QED
      BY <3>1, TwoMore
  <2>4. a.t0 + p * a.td + a.td < a.hi
    BY <1>1, <1>2, <2>1, <2>2, <2>3
  <2>5. a.lo <= a.t0 + p * a.td + a.td
    BY <1>1, <2>1
  <2> QED
    BY <1>1, <2>1, <2>4, <2>5 DEF TileOn, Greater, Lesser
<1>5. TileOn(a, NumTiles(a) - 1).hi = a.hi
  <2>1. (NumTiles(a) - 1) * a.td + a.td = NumTiles(a) * a.td
    BY <1>1, <1>2
  <2>2. (NumTiles(a) - 1) * a.td \in Int /\ NumTiles(a) * a.td \in Int
    BY <1>1, <1>2
  <2> QED
    BY <1>1, <1>2, <2>1, <2>2 DEF TileOn, Lesser
<1> QED
  BY <1>3, <1>4, <1>5 DEF Sampled

(* opj_j2k_set_decode_area: every place of the area is in one of the tiles *)
(* from StartTile to EndTile.                                              *)
THEOREM AreaInTiles ==
  ASSUME NEW a \in Axis, NEW w \in [lo : Nat, hi : Nat], NEW v \in Nat,
         w.lo <= v, v < w.hi, a.lo <= v, v < a.hi
  PROVE  \E p \in StartTile(a, w.lo)..(EndTile(a, w.hi) - 1) :
           TileOn(a, p).lo <= v /\ v < TileOn(a, p).hi
<1> DEFINE p == (v - a.t0) \div a.td
<1>1. /\ a.lo \in Nat /\ a.hi \in Nat /\ a.t0 \in Nat /\ a.td \in Nat /\ a.td > 0
      /\ a.t0 <= a.lo /\ a.lo < a.hi /\ a.lo < a.t0 + a.td /\ w.lo \in Nat /\ w.hi \in Nat
  BY DEF Axis, Positive
<1>2. /\ p \in Nat /\ p * a.td \in Nat
      /\ a.t0 + p * a.td <= v /\ v < a.t0 + p * a.td + a.td
  <2> DEFINE u == v - a.t0
  <2>1. u \in Nat /\ v = a.t0 + u
    BY <1>1
  <2>2. p = u \div a.td
    OBVIOUS
  <2> HIDE DEF u, p
  <2>3. p \in Nat /\ a.td * p <= u /\ u < a.td * p + a.td
    <3>1. u \in Nat /\ a.td \in Positive
      BY <1>1, <2>1 DEF Positive
    <3> QED
      BY <2>2, <3>1, QuotientBounds
  <2>4. a.td * p = p * a.td /\ p * a.td \in Nat
    BY <1>1, <2>3
  <2> QED
    BY <1>1, <2>1, <2>3, <2>4
<1>3. TileOn(a, p).lo <= v /\ v < TileOn(a, p).hi
  <2> HIDE DEF p
  <2> QED
    BY <1>1, <1>2 DEF TileOn, Greater, Lesser
<1>4. StartTile(a, w.lo) \in Int /\ StartTile(a, w.lo) <= p
  BY <1>1, <1>2 DEF StartTile
<1>5. EndTile(a, w.hi) \in Int /\ p < EndTile(a, w.hi)
  <2>1. CASE w.hi > a.hi
    <3>1. NumTiles(a) \in Nat /\ a.hi <= a.t0 + NumTiles(a) * a.td
      BY TileBounds DEF Positive
    <3>2. EndTile(a, w.hi) = NumTiles(a)
      BY <2>1 DEF EndTile
    <3> HIDE DEF p
    <3>3. p * a.td < NumTiles(a) * a.td
      BY <1>1, <1>2, <3>1
    <3> QED
      BY <1>1, <1>2, <3>1, <3>2, <3>3
  <2>2. CASE w.hi <= a.hi
    <3> DEFINE n == CeilDiv(w.hi - a.t0, a.td)
    <3>1. n \in Int /\ w.hi - a.t0 <= a.td * n
      <4>1. w.hi - a.t0 \in Int /\ a.td \in Positive
        BY <1>1 DEF Positive
      <4> HIDE DEF p
      <4> QED
        BY <4>1, CeilDivBounds
    <3>2. EndTile(a, w.hi) = n
      BY <1>1, <2>2 DEF EndTile
    <3> HIDE DEF p, n
    <3>3. p * a.td < a.td * n
      BY <1>1, <1>2, <3>1
    <3> QED
      BY <1>1, <1>2, <3>1, <3>2, <3>3
  <2> QED
    BY <1>1, <2>1, <2>2
<1> HIDE DEF p
<1> QED
  BY <1>2, <1>3, <1>4, <1>5
==============================================================================
