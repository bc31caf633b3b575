------------------------------ MODULE TileDecode ------------------------------
(***************************************************************************)
(* opj_tcd_decode_tile (tcd.c) on the thread pool: tier 1 code-block jobs  *)
(* (t1.c), then either the wavelet jobs of a whole tile or the sequential  *)
(* synthesis of a window (dwt.c).  The tile is kept between calls, as      *)
(* j2k.c keeps the only tile of a single-tile image whose areas are        *)
(* decoded one after the other: code-blocks decoded by an earlier call are *)
(* reused.                                                                 *)
(*                                                                         *)
(* The pool is JobPool, the specification ThreadPool implements.  "main"   *)
(* is the thread that called the codec; a code-block job has a step for    *)
(* each place where it touches what main or other jobs can see.            *)
(***************************************************************************)
EXTENDS Integers, FiniteSets

CONSTANTS
  NumBlocks,     \* code-blocks of the tile, in the order of the loops of t1.c
  CompOf,        \* the component of each
  Corrupt,       \* the blocks tier 1 refuses (bpno_plus_one >= 31, ...)
  Windows,       \* the sets of blocks that the areas to decode may need
  Levels,        \* resolution levels to synthesise
  Lines,         \* lines of a pass (rows of a horizontal one, then columns)
  Threads,       \* the sizes the thread pool may have
  PackedHeaders, \* the packet headers are in PPM or PPT markers
  Faults,        \* what may fail: allocations, and submit_job ("submit")
  MaxCalls       \* bound on the calls of opj_tcd_decode_tile

Blocks == 1..NumBlocks
Comps == {CompOf[b] : b \in Blocks}
Passes == 2 * Levels           \* a horizontal and a vertical pass per level
LineNos == 0..(Lines - 1)

ASSUME TileDecodeAssumption ==
  /\ NumBlocks \in Nat \ {0} /\ Levels \in Nat /\ Lines \in Nat \ {0}
  /\ Corrupt \subseteq Blocks
  /\ Windows \subseteq SUBSET Blocks
  /\ Threads \subseteq Nat
  /\ PackedHeaders \in BOOLEAN
  /\ MaxCalls \in Nat

VARIABLES
  submitted, running, done, phase, limit,  \* the pool
  threads,           \* opj_thread_pool_get_thread_count
  pc,                \* where main is
  call, window, used, whole,  \* the call it is in: its number, the blocks and
                     \* the components it needs, whole_tile_decoding
  headers_left,      \* the packed packet headers are still to be read
  segs,              \* per block: tier 2 has found data for it in this call
  decoded_data,      \* per block: cblk->decoded_data
  tile_data,         \* per block: its part of tilec->data
  ret,               \* the volatile flag all jobs of tier 1 share
  jpc,               \* per block: where its job is
  next,              \* the block, or the slice, main comes to next
  pass,              \* the wavelet pass
  swept,             \* per line: how often this pass has transformed it
  refused            \* history: the pool has refused a job of this call

poolState == <<submitted, running, done, phase, limit>>
callState == <<threads, call, window, used, whole, headers_left, segs, refused>>
blockState == <<decoded_data, tile_data, ret, jpc>>
dwtState == <<pass, swept>>
vars == <<poolState, callState, blockState, dwtState, pc, next>>

\* The jobs of call c: tier 1 is step 0, wavelet pass p is step p.
Job(step, part) == <<call, step, part>>

Pool == INSTANCE JobPool WITH
  Jobs <- (1..MaxCalls) \X (0..Passes) \X Nat, MaxRemaining <- {0}

\* With no worker the job runs inside submit_job, so that main goes on only
\* when it is over.
MainAt(place) == pc = place /\ (threads = 0 => Pool!Outstanding = {})

Init ==
  /\ Pool!PoolInit
  /\ threads \in Threads
  /\ pc = "idle" /\ call = 0 /\ window = {} /\ used = {} /\ whole = FALSE
  /\ headers_left = PackedHeaders
  /\ segs = [b \in Blocks |-> FALSE]
  /\ decoded_data = [b \in Blocks |-> "null"]
  /\ tile_data = [b \in Blocks |-> "none"]
  /\ ret = TRUE /\ jpc = [b \in Blocks |-> "none"]
  /\ next = 1 /\ pass = 0 /\ swept = [l \in LineNos |-> 0] /\ refused = FALSE

(***************************************************************************)
(* opj_tcd_decode_tile up to tier 1                                        *)
(***************************************************************************)
Selected == {b \in window : CompOf[b] \in used}

\* A window of the tile.  The tile is kept from the last call, or it has just
\* been initialised.
DecodeWindow(W, C) ==
  /\ MainAt("idle") /\ call < MaxCalls
  /\ call' = call + 1 /\ window' = W /\ used' = C /\ whole' = FALSE /\ refused' = FALSE
  /\ pc' = "t2"
  /\ UNCHANGED <<poolState, threads, headers_left, segs, blockState, dwtState, next>>

\* All of the tile.  opj_j2k_read_tile_header initialises it again, unless it
\* has been kept and the image is not exactly this tile: every block loses its
\* decoded_data (opj_tcd_code_block_dec_allocate).  It refuses to merge packed
\* headers twice.  Nothing of this call is in the tile's data yet.
DecodeWhole(C) ==
  /\ MainAt("idle") /\ call < MaxCalls
  /\ call' = call + 1 /\ window' = Blocks /\ used' = C /\ whole' = TRUE /\ refused' = FALSE
  /\ \/ (PackedHeaders => call = 0) /\ decoded_data' = [b \in Blocks |-> "null"]
     \/ call > 0 /\ UNCHANGED decoded_data
  /\ tile_data' = [b \in Blocks |-> "none"]
  /\ pc' = "t2"
  /\ UNCHANGED <<poolState, threads, headers_left, segs, ret, jpc, dwtState, next>>

\* An allocation of the tile data, or tier 2, fails.
TileFails ==
  /\ "tile" \in Faults /\ MainAt("t2")
  /\ pc' = "failed"
  /\ UNCHANGED <<poolState, callState, blockState, dwtState, next>>

\* opj_t2_decode_packets.  Layer 0 forgets the segments of every block it
\* meets; packed headers are read once, their cursor is not put back, and past
\* their end every packet reads as empty.
T2Decode ==
  /\ MainAt("t2")
  /\ segs' = [b \in Blocks |-> b \in window /\ (PackedHeaders => headers_left)]
  /\ headers_left' = FALSE
  /\ ret' = TRUE /\ next' = 1 /\ pc' = "t1"
  /\ UNCHANGED <<poolState, threads, call, window, used, whole, refused,
                 decoded_data, tile_data, jpc, dwtState>>

(***************************************************************************)
(* opj_t1_decode_cblks and opj_tcd_t1_decode, run by main                  *)
(***************************************************************************)
AtBlock(b) == MainAt("t1") /\ next = b

\* The loop over the components looks at ret, which a job may have cleared.
FirstOfComp(b) == b > 1 /\ CompOf[b] # CompOf[b - 1]
GoesOn(b) == FirstOfComp(b) => ret

\* A block outside the area loses what an earlier call decoded; a component
\* that is not asked for keeps it.
T1Discard_KeepsOld(b) ==
  /\ AtBlock(b) /\ GoesOn(b) /\ b \notin Selected
  /\ next' = b + 1
  /\ UNCHANGED <<poolState, callState, decoded_data, tile_data, ret, jpc, dwtState, pc>>

T1Discard(b) ==
  /\ AtBlock(b) /\ GoesOn(b) /\ b \notin Selected
  /\ decoded_data' = [decoded_data EXCEPT ![b] =
                        IF CompOf[b] \in used THEN "null" ELSE @]
  /\ next' = b + 1
  /\ UNCHANGED <<poolState, callState, tile_data, ret, jpc, dwtState, pc>>

Reusable(b) == ~whole /\ decoded_data[b] # "null"

T1Reuse_NotAdvanced(b) ==
  /\ AtBlock(b) /\ GoesOn(b) /\ b \in Selected /\ Reusable(b)
  /\ UNCHANGED vars

T1Reuse(b) ==
  /\ AtBlock(b) /\ GoesOn(b) /\ b \in Selected /\ Reusable(b)
  /\ next' = b + 1
  /\ UNCHANGED <<poolState, callState, blockState, dwtState, pc>>

NeedsJob(b) == AtBlock(b) /\ GoesOn(b) /\ b \in Selected /\ ~Reusable(b)

T1Submit(b) ==
  /\ NeedsJob(b)
  /\ Pool!Submit(Job(0, b))
  /\ threads = 0 => Job(0, b) \in running'
  /\ jpc' = [jpc EXCEPT ![b] = "begin"]
  /\ pc' = "t1_submitted"
  /\ UNCHANGED <<callState, decoded_data, tile_data, ret, dwtState, next>>

\* What submit_job returns is not looked at.
T1SubmitFails(b) ==
  /\ "submit" \in Faults /\ NeedsJob(b)
  /\ refused' = TRUE
  /\ pc' = "t1_submitted"
  /\ UNCHANGED <<poolState, threads, call, window, used, whole, headers_left, segs,
                 blockState, dwtState, next>>

T1JobFails(b) ==
  /\ "job" \in Faults /\ NeedsJob(b)
  /\ ret' = FALSE
  /\ pc' = "t1_end"
  /\ UNCHANGED <<poolState, callState, decoded_data, tile_data, jpc, dwtState, next>>

\* After each submission main looks at ret, while the jobs run.
T1Submitted ==
  /\ MainAt("t1_submitted")
  /\ IF ret THEN pc' = "t1" /\ next' = next + 1
            ELSE pc' = "t1_end" /\ next' = next
  /\ UNCHANGED <<poolState, callState, blockState, dwtState>>

T1LoopEnds ==
  /\ MainAt("t1")
  /\ next \in Blocks => ~GoesOn(next)
  /\ pc' = "t1_end"
  /\ UNCHANGED <<poolState, callState, blockState, dwtState, next>>

\* opj_thread_pool_wait_completion(0), whether or not a job has failed.
T1Wait_OnlyIfOk ==
  /\ MainAt("t1_end")
  /\ IF ret THEN Pool!WaitFor(0) /\ pc' = "t1_wait"
            ELSE UNCHANGED poolState /\ pc' = "failed"
  /\ UNCHANGED <<callState, blockState, dwtState, next>>

T1Wait ==
  /\ MainAt("t1_end")
  /\ Pool!WaitFor(0)
  /\ pc' = "t1_wait"
  /\ UNCHANGED <<callState, blockState, dwtState, next>>

T1Returns ==
  /\ pc = "t1_wait" /\ Pool!WaitReturns
  /\ pc' = IF ~ret THEN "failed" ELSE IF whole THEN "dwt" ELSE "window"
  /\ next' = 0 /\ pass' = 0
  /\ UNCHANGED <<callState, blockState, swept>>

(***************************************************************************)
(* opj_t1_clbl_decode_processor, the job of a code-block                   *)
(***************************************************************************)
InJob(b, place) == Job(0, b) \in running /\ jpc[b] = place

JobReturns(b) ==
  /\ Pool!Finish(Job(0, b))
  /\ jpc' = [jpc EXCEPT ![b] = "none"]

\* A window's block gets a buffer of zeroes of its own; one that is kept goes
\* when the tile is decoded whole, to be written to the tile's data.
T1Alloc(b) ==
  /\ InJob(b, "begin")
  /\ decoded_data' = [decoded_data EXCEPT ![b] = IF whole THEN "null" ELSE "zero"]
  /\ jpc' = [jpc EXCEPT ![b] = "alloc"]
  /\ UNCHANGED <<poolState, callState, tile_data, ret, dwtState, pc, next>>

T1AllocFails(b) ==
  /\ "block" \in Faults /\ ~whole
  /\ InJob(b, "begin")
  /\ ret' = FALSE
  /\ JobReturns(b)
  /\ UNCHANGED <<callState, decoded_data, tile_data, dwtState, pc, next>>

\* Some job has failed: this one gives up, leaving its zeroes behind.
T1GiveUp(b) ==
  /\ InJob(b, "alloc") /\ ~ret
  /\ JobReturns(b)
  /\ UNCHANGED <<callState, decoded_data, tile_data, ret, dwtState, pc, next>>

T1GoOn(b) ==
  /\ InJob(b, "alloc") /\ ret
  /\ jpc' = [jpc EXCEPT ![b] = "decode"]
  /\ UNCHANGED <<poolState, callState, decoded_data, tile_data, ret, dwtState, pc, next>>

\* The samples of b: its coefficients, or zeroes if tier 2 found nothing.
Samples(b) == IF segs[b] THEN "coef" ELSE "blank"

T1Decode(b) ==
  /\ InJob(b, "decode") /\ b \notin Corrupt
  /\ IF whole
       THEN /\ tile_data' = [tile_data EXCEPT ![b] = Samples(b)]
            /\ UNCHANGED decoded_data
       ELSE /\ decoded_data' = [decoded_data EXCEPT ![b] = Samples(b)]
            /\ UNCHANGED tile_data
  /\ JobReturns(b)
  /\ UNCHANGED <<callState, ret, dwtState, pc, next>>

\* The tier 1 handle cannot be created, or the block cannot be decoded; what
\* has been written stays.
T1DecodeFails_Unreported(b) ==
  /\ InJob(b, "decode") /\ (b \in Corrupt \/ "handle" \in Faults)
  /\ JobReturns(b)
  /\ UNCHANGED <<callState, decoded_data, tile_data, ret, dwtState, pc, next>>

T1DecodeFails(b) ==
  /\ InJob(b, "decode") /\ (b \in Corrupt \/ "handle" \in Faults)
  /\ ret' = FALSE
  /\ JobReturns(b)
  /\ UNCHANGED <<callState, decoded_data, tile_data, dwtState, pc, next>>

\* The pool gives the job to a worker.
JobStarts ==
  /\ \E j \in submitted : Pool!Start(j)
  /\ UNCHANGED <<callState, blockState, dwtState, pc, next>>

(***************************************************************************)
(* opj_dwt_decode_tile: each pass of each level is cut into one slice per  *)
(* thread, and is over before the next pass begins                         *)
(***************************************************************************)
NumJobs == IF Lines < threads THEN Lines ELSE threads

SliceOf_NoRemainder(k) ==
  {l \in LineNos : k * (Lines \div NumJobs) <= l /\ l < (k + 1) * (Lines \div NumJobs)}

\* Lines min_j..max_j-1 of job k; the last job takes the remainder.
SliceOf(k) ==
  {l \in LineNos : /\ k * (Lines \div NumJobs) <= l
                   /\ k < NumJobs - 1 => l < (k + 1) * (Lines \div NumJobs)}

Sweep(ls) == [l \in LineNos |-> IF l \in ls THEN swept[l] + 1 ELSE swept[l]]

DwtBegins ==
  /\ MainAt("dwt") /\ pass < Passes
  /\ pass' = pass + 1 /\ swept' = [l \in LineNos |-> 0]
  /\ next' = 0
  /\ pc' = IF threads <= 1 \/ Lines <= 1 THEN "dwt_inline" ELSE "dwt_jobs"
  /\ UNCHANGED <<poolState, callState, blockState>>

\* The scratch memory of all the passes cannot be allocated.
DwtMemFails ==
  /\ "line" \in Faults /\ MainAt("dwt") /\ pass = 0 /\ Levels > 0
  /\ pc' = "failed"
  /\ UNCHANGED <<poolState, callState, blockState, dwtState, next>>

\* With one thread or one line main does the pass by itself.
DwtInline ==
  /\ MainAt("dwt_inline")
  /\ swept' = Sweep(LineNos)
  /\ pc' = "dwt"
  /\ UNCHANGED <<poolState, callState, blockState, pass, next>>

DwtSubmit ==
  /\ MainAt("dwt_jobs") /\ next < NumJobs
  /\ Pool!Submit(Job(pass, next)) /\ running' = running
  /\ next' = next + 1
  /\ UNCHANGED <<callState, blockState, dwtState, pc>>

DwtSubmitFails ==
  /\ "submit" \in Faults
  /\ MainAt("dwt_jobs") /\ next < NumJobs
  /\ next' = next + 1 /\ refused' = TRUE
  /\ UNCHANGED <<poolState, threads, call, window, used, whole, headers_left, segs,
                 blockState, dwtState, pc>>

\* A job or its scratch memory cannot be allocated: the jobs already launched
\* are awaited before the call fails.
DwtJobFails ==
  /\ "line" \in Faults
  /\ MainAt("dwt_jobs") /\ next < NumJobs
  /\ Pool!WaitFor(0)
  /\ pc' = "dwt_fail"
  /\ UNCHANGED <<callState, blockState, dwtState, next>>

DwtWait ==
  /\ MainAt("dwt_jobs") /\ next = NumJobs
  /\ Pool!WaitFor(0)
  /\ pc' = "dwt_wait"
  /\ UNCHANGED <<callState, blockState, dwtState, next>>

DwtReturns ==
  /\ pc \in {"dwt_wait", "dwt_fail"} /\ Pool!WaitReturns
  /\ pc' = IF pc = "dwt_wait" THEN "dwt" ELSE "failed"
  /\ UNCHANGED <<callState, blockState, dwtState, next>>

\* opj_dwt_decode_h_func, opj_dwt_decode_v_func
DwtJob(k) ==
  /\ Job(pass, k) \in running /\ pass > 0
  /\ Pool!Finish(Job(pass, k))
  /\ swept' = Sweep(SliceOf(k))
  /\ UNCHANGED <<callState, blockState, pass, pc, next>>

\* The component transform and the level shift, done by main, end the call.
DwtEnds ==
  /\ MainAt("dwt") /\ pass = Passes
  /\ pc' = "finish"
  /\ UNCHANGED <<poolState, callState, blockState, dwtState, next>>

\* opj_dwt_decode_partial_tile: main alone, from the blocks' decoded_data.
WindowSynthesis ==
  /\ MainAt("window")
  /\ pc' = "finish"
  /\ UNCHANGED <<poolState, callState, blockState, dwtState, next>>

\* data_win or the sparse array cannot be allocated, or the components do not
\* have the dimensions the component transform needs.
FinishFails ==
  /\ "finish" \in Faults /\ (MainAt("window") \/ MainAt("finish"))
  /\ pc' = "failed"
  /\ UNCHANGED <<poolState, callState, blockState, dwtState, next>>

\* The data of a whole tile goes to the image.
Finish ==
  /\ MainAt("finish")
  /\ pc' = "idle"
  /\ UNCHANGED <<poolState, callState, blockState, dwtState, next>>

\* opj_j2k_decode_tile has destroyed the tile: this decoder decodes no more.
Over ==
  /\ pc = "failed" \/ (pc = "idle" /\ call = MaxCalls)
  /\ UNCHANGED vars

-----------------------------------------------------------------------------
BlockNext(b) ==
  \/ T1Alloc(b) \/ T1AllocFails(b) \/ T1GiveUp(b) \/ T1GoOn(b)
  \/ T1Decode(b) \/ T1DecodeFails(b)

WorkerNext ==
  \/ JobStarts
  \/ \E b \in Blocks : BlockNext(b)
  \/ \E k \in 0..(NumJobs - 1) : DwtJob(k)

MainNext ==
  \/ TileFails \/ T2Decode
  \/ \E b \in Blocks :
       T1Discard(b) \/ T1Reuse(b) \/ T1Submit(b) \/ T1SubmitFails(b) \/ T1JobFails(b)
  \/ T1Submitted \/ T1LoopEnds \/ T1Wait \/ T1Returns
  \/ DwtMemFails \/ DwtBegins \/ DwtInline \/ DwtSubmit \/ DwtSubmitFails \/ DwtJobFails
  \/ DwtWait \/ DwtReturns \/ DwtEnds
  \/ WindowSynthesis \/ FinishFails \/ Finish

CallNext ==
  \E C \in SUBSET Comps \ {{}} :
     DecodeWhole(C) \/ \E W \in Windows : DecodeWindow(W, C)

Next == CallNext \/ MainNext \/ WorkerNext \/ Over

Spec == Init /\ [][Next]_vars

\* The caller need not call again; main and the workers of the pool run.
FairSpec == Spec /\ WF_vars(MainNext) /\ WF_vars(WorkerNext)
-----------------------------------------------------------------------------
InTier1 == {"t1", "t1_submitted", "t1_end", "t1_wait"}
InPass == {"dwt_jobs", "dwt_wait", "dwt_fail"}

\* The variables range over what the code can store in them.
TypeOK ==
  /\ threads \in Threads
  /\ pc \in {"idle", "t2", "window", "dwt", "dwt_inline", "finish", "failed"}
              \cup InTier1 \cup InPass
  /\ call \in 0..MaxCalls /\ window \subseteq Blocks /\ used \subseteq Comps
  /\ whole \in BOOLEAN /\ headers_left \in BOOLEAN /\ ret \in BOOLEAN /\ refused \in BOOLEAN
  /\ segs \in [Blocks -> BOOLEAN]
  /\ decoded_data \in [Blocks -> {"null", "zero", "coef", "blank"}]
  /\ tile_data \in [Blocks -> {"none", "coef", "blank"}]
  /\ jpc \in [Blocks -> {"none", "begin", "alloc", "decode"}]
  /\ next \in Nat /\ pass \in 0..Passes
  /\ swept \in [LineNos -> Nat]

\* The jobs of a step are over before main leaves it, however it leaves it: ret
\* and the mutex of the messages are main's own, and the next pass, or the
\* next call, works on the same data.  With the types.
NoJobOutlivesItsStep ==
  /\ TypeOK
  /\ \A j \in Pool!Outstanding :
       /\ j[1] = call
       /\ \/ j[2] = 0 /\ pc \in InTier1
          \/ j[2] = pass /\ pc \in InPass

\* The call has the samples of every block it needs, decoded by this call or
\* kept from an earlier one.
AllSamples ==
  \A b \in Selected : (IF whole THEN tile_data[b] ELSE decoded_data[b]) = "coef"

\* Whatever failed in the jobs, a call that succeeds has all its samples, unless
\* an opj_thread_pool_submit_job nobody looked at has failed.
DecodedComplete == pc = "idle" /\ call > 0 => AllSamples \/ refused

\* A call that succeeds has all its samples.
SuccessIsComplete == pc = "idle" /\ call > 0 => AllSamples

\* What is kept for the next call is what was decoded, never the zeroes of a job
\* that gave up, and of the components asked for only what this call needed.
KeptBlocksSound ==
  pc = "idle" /\ call > 0 =>
    \A b \in Blocks : decoded_data[b] # "null" =>
      /\ decoded_data[b] = "coef"
      /\ CompOf[b] \in used => b \in window

\* The slices of a wavelet pass transform every line, and none twice.
PassExact ==
  pc = "dwt" /\ pass > 0 =>
    \A l \in LineNos : swept[l] <= 1 /\ (swept[l] = 1 \/ refused)

\* Every call returns.
CallsReturn == pc \notin {"idle", "failed"} ~> pc \in {"idle", "failed"}
=============================================================================
