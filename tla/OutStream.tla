------------------------------ MODULE OutStream ------------------------------
(***************************************************************************)
(* The output side of cio.c: opj_stream_write_data, opj_stream_flush,      *)
(* opj_stream_write_skip and opj_stream_write_seek over a buffer and the   *)
(* user's write, skip and seek functions.  A call is cut where it calls    *)
(* one of these functions.                                                 *)
(*                                                                         *)
(* A byte is identified with the number of the call that wrote it.  The    *)
(* names are those of InStream with a `w`, or their own.                   *)
(***************************************************************************)
EXTENDS StreamSizes, Sequences

Places == 0..(MediumLen - 1)
Failure == -1   \* (OPJ_SIZE_T)-1, (OPJ_OFF_T)-1, OPJ_FALSE

VARIABLES
  file, wpos,  \* what the medium has, and where it is
  wstored,     \* m_stored_data
  wcur,        \* m_current_data - m_stored_data
  winbuf,      \* m_bytes_in_buffer
  woff,        \* m_byte_offset
  failed,      \* OPJ_STREAM_STATUS_ERROR
  wpc, wop,    \* where the call is, and which
  wasked, wsize, wcount,   \* its p_size at first and as it goes; how much is done
  wret, wcalls

outVars == <<file, wpos, wstored, wcur, winbuf, woff, failed, wpc, wop, wasked, wsize,
             wcount, wret, wcalls>>

OutInit ==
  /\ file = [p \in Places |-> 0] /\ wpos = 0
  /\ wstored = [i \in 0..(BufferSize - 1) |-> 0]
  /\ wcur = 0 /\ winbuf = 0 /\ woff = 0 /\ failed = FALSE
  /\ wpc = "idle" /\ wop = "none" /\ wasked = 0 /\ wsize = 0 /\ wcount = 0
  /\ wret = 0 /\ wcalls = 0

OutCall(o, k) ==
  /\ wpc = "idle" /\ wcalls < MaxCalls
  /\ wcalls' = wcalls + 1 /\ wop' = o /\ wasked' = k

OutReturn(r) == wpc' = "idle" /\ wret' = r

\* How much the user's function may answer when asked for k.
OutAnswers(k) == IF "short" \in Faults THEN 1..k ELSE {k}

(***************************************************************************)
(* opj_stream_write_data                                                   *)
(***************************************************************************)
WriteRefused(k) ==
  /\ OutCall("write", k) /\ failed
  /\ OutReturn(Failure)
  /\ UNCHANGED <<file, wpos, wstored, wcur, winbuf, woff, failed, wsize, wcount>>

WriteBegins(k) ==
  /\ OutCall("write", k) /\ ~failed
  /\ woff + k <= MediumLen
  /\ wsize' = k /\ wcount' = 0 /\ wpc' = "write"
  /\ UNCHANGED <<file, wpos, wstored, wcur, winbuf, woff, failed, wret>>

Room == BufferSize - winbuf

\* k bytes of the caller at m_current_data.
Copy(k) ==
  /\ wstored' = [i \in 0..(BufferSize - 1) |->
                  IF wcur <= i /\ i < wcur + k THEN wcalls ELSE wstored[i]]
  /\ winbuf' = winbuf + k /\ woff' = woff + k
  /\ wsize' = wsize - k /\ wcount' = wcount + k

WriteFits ==
  /\ wpc = "write" /\ Room >= wsize
  /\ Copy(wsize)
  /\ wcur' = wcur + wsize
  /\ OutReturn(wcount + wsize)
  /\ UNCHANGED <<file, wpos, failed, wop, wasked, wcalls>>

\* What fits is copied, and the buffer is flushed before the rest.
WriteFills_NoCopy ==
  /\ wpc = "write" /\ Room < wsize
  /\ wcur' = 0
  /\ wpc' = "flush"
  /\ UNCHANGED <<file, wpos, wstored, winbuf, woff, wsize, wcount, failed, wop, wasked,
                 wret, wcalls>>

WriteFills ==
  /\ wpc = "write" /\ Room < wsize
  /\ Copy(Room)
  /\ wcur' = 0
  /\ wpc' = "flush"
  /\ UNCHANGED <<file, wpos, failed, wop, wasked, wret, wcalls>>

(***************************************************************************)
(* opj_stream_flush, called by the codecs and by the other operations      *)
(***************************************************************************)
FlushBegins(o, k) ==
  /\ OutCall(o, k)
  /\ wcur' = 0 /\ wpc' = "flush" /\ wsize' = k /\ wcount' = 0
  /\ UNCHANGED <<file, wpos, wstored, winbuf, woff, failed, wret>>

\* The write function is given what is left and says how much it took.
Taken(k) ==
  [p \in Places |-> IF wpos <= p /\ p < wpos + k THEN wstored[wcur + p - wpos] ELSE file[p]]

FlushSome_FromStart ==
  /\ wpc = "flush" /\ winbuf > 0
  /\ \E k \in OutAnswers(winbuf) :
       /\ file' = Taken(k) /\ wpos' = wpos + k
       /\ wcur' = 0 /\ winbuf' = winbuf - k
  /\ UNCHANGED <<wstored, woff, failed, wpc, wop, wasked, wsize, wcount, wret,
                 wcalls>>

FlushSome ==
  /\ wpc = "flush" /\ winbuf > 0
  /\ \E k \in OutAnswers(winbuf) :
       /\ "full" \in Faults => wpos + k <= Capacity
       /\ file' = Taken(k) /\ wpos' = wpos + k
       /\ wcur' = wcur + k /\ winbuf' = winbuf - k
  /\ UNCHANGED <<wstored, woff, failed, wpc, wop, wasked, wsize, wcount, wret,
                 wcalls>>

\* fwrite takes what the medium can hold, perhaps nothing, and opj_write_from_file
\* returns how much that is.
FlushToFull ==
  /\ "full" \in Faults
  /\ wpc = "flush" /\ winbuf > 0 /\ wpos + winbuf > Capacity
  /\ LET k == IF wpos < Capacity THEN Capacity - wpos ELSE 0
     IN  /\ file' = Taken(k) /\ wpos' = wpos + k
         /\ wcur' = wcur + k /\ winbuf' = winbuf - k
  /\ UNCHANGED <<wstored, woff, failed, wpc, wop, wasked, wsize, wcount, wret,
                 wcalls>>

\* It returns -1.  opj_stream_write_skip also empties the buffer.
FlushFails_NoFlag ==
  /\ "write" \in Faults
  /\ wpc = "flush" /\ winbuf > 0
  /\ winbuf' = IF wop = "skip" THEN 0 ELSE winbuf
  /\ OutReturn(Failure)
  /\ UNCHANGED <<file, wpos, wstored, wcur, woff, failed, wop, wasked, wsize, wcount,
                 wcalls>>

FlushFails ==
  /\ "write" \in Faults
  /\ wpc = "flush" /\ winbuf > 0
  /\ failed' = TRUE
  /\ winbuf' = IF wop = "skip" THEN 0 ELSE winbuf
  /\ OutReturn(Failure)
  /\ UNCHANGED <<file, wpos, wstored, wcur, woff, wop, wasked, wsize, wcount,
                 wcalls>>

\* The buffer is empty: the operation that called goes on.
FlushEnds ==
  /\ wpc = "flush" /\ winbuf = 0
  /\ wcur' = 0
  /\ IF wop = "flush" THEN OutReturn(1) ELSE wpc' = wop /\ UNCHANGED wret
  /\ UNCHANGED <<file, wpos, wstored, winbuf, woff, failed, wop, wasked, wsize, wcount,
                 wcalls>>

Flush == FlushBegins("flush", 0)

(***************************************************************************)
(* opj_stream_write_skip and opj_stream_write_seek                         *)
(***************************************************************************)
WriteSkipRefused(k) ==
  /\ OutCall("skip", k) /\ failed
  /\ OutReturn(Failure)
  /\ UNCHANGED <<file, wpos, wstored, wcur, winbuf, woff, failed, wsize, wcount>>

WriteSkipBegins(k) ==
  /\ ~failed /\ woff + k <= MediumLen
  /\ FlushBegins("skip", k)

WriteSkipMedium ==
  /\ wpc = "skip" /\ wsize > 0
  /\ \E k \in OutAnswers(wsize) :
       wpos' = wpos + k /\ wsize' = wsize - k /\ wcount' = wcount + k
  /\ UNCHANGED <<file, wstored, wcur, winbuf, woff, failed, wpc, wop, wasked, wret, wcalls>>

WriteSkipFails ==
  /\ "skip" \in Faults
  /\ wpc = "skip" /\ wsize > 0
  /\ failed' = TRUE /\ woff' = woff + wcount
  /\ OutReturn(IF wcount = 0 THEN Failure ELSE wcount)
  /\ UNCHANGED <<file, wpos, wstored, wcur, winbuf, wop, wasked, wsize, wcount,
                 wcalls>>

WriteSkipEnds_OffsetKept ==
  /\ wpc = "skip" /\ wsize = 0
  /\ woff' = woff
  /\ OutReturn(wcount)
  /\ UNCHANGED <<file, wpos, wstored, wcur, winbuf, failed, wop, wasked, wsize, wcount,
                 wcalls>>

WriteSkipEnds ==
  /\ wpc = "skip" /\ wsize = 0
  /\ woff' = woff + wcount
  /\ OutReturn(wcount)
  /\ UNCHANGED <<file, wpos, wstored, wcur, winbuf, failed, wop, wasked, wsize, wcount,
                 wcalls>>

\* Also when an earlier call has failed: what that call left is flushed again.
WriteSeekBegins(to) == FlushBegins("seek", to)

WriteSeekMedium ==
  /\ wpc = "seek"
  /\ wpos' = wsize /\ woff' = wsize
  /\ OutReturn(1)
  /\ UNCHANGED <<file, wstored, wcur, winbuf, failed, wop, wasked, wsize, wcount,
                 wcalls>>

WriteSeekFails ==
  /\ "seek" \in Faults
  /\ wpc = "seek"
  /\ failed' = TRUE
  /\ OutReturn(Failure)
  /\ UNCHANGED <<file, wpos, wstored, wcur, winbuf, woff, wop, wasked, wsize, wcount,
                 wcalls>>

\* The codec stops calling.
OutOver == wpc = "idle" /\ wcalls = MaxCalls /\ UNCHANGED outVars
-----------------------------------------------------------------------------
OutBegin ==
  \/ \E k \in 0..MaxSize :
       WriteRefused(k) \/ WriteBegins(k) \/ WriteSkipRefused(k) \/ WriteSkipBegins(k)
  \/ \E to \in Places : WriteSeekBegins(to)
  \/ Flush

OutContinue ==
  \/ WriteFits \/ WriteFills
  \/ FlushSome \/ FlushToFull \/ FlushFails \/ FlushEnds
  \/ WriteSkipMedium \/ WriteSkipFails \/ WriteSkipEnds
  \/ WriteSeekMedium \/ WriteSeekFails

OutNext == OutBegin \/ OutContinue \/ OutOver

OutSpec == OutInit /\ [][OutNext]_outVars

\* A call that has begun runs; the user's functions return.
OutFairSpec == OutSpec /\ WF_outVars(OutContinue)
-----------------------------------------------------------------------------
\* The variables range over what the code can store in them, and the part of
\* the buffer in use is inside the buffer.
OutTypeOK ==
  /\ file \in [Places -> 0..MaxCalls] /\ wpos \in 0..(MediumLen + BufferSize)
  /\ wstored \in [0..(BufferSize - 1) -> 0..MaxCalls]
  /\ wcur \in 0..BufferSize /\ winbuf \in 0..BufferSize
  /\ wpc = "flush" => wcur + winbuf <= BufferSize
  /\ woff \in 0..MediumLen /\ failed \in BOOLEAN
  /\ wpc \in {"idle", "write", "flush", "skip", "seek"}
  /\ wop \in {"none", "write", "flush", "skip", "seek"}
  /\ wasked \in Nat /\ wsize \in Nat /\ wcount \in Nat
  /\ wret \in Int /\ wcalls \in 0..MaxCalls

\* Unless a function of the user has failed, m_byte_offset is where the medium
\* will be when the buffer has been written.
OffsetIsPosition ==
  ~failed =>
    /\ wpc = "skip" => winbuf = 0 /\ wpos = woff + wcount
    /\ wpc # "skip" => wpos + winbuf = woff

\* A write that does not report a failure has taken all it was given; and the
\* variables keep their types.
WriteReturnsCount ==
  /\ OutTypeOK
  /\ wpc = "idle" /\ wop = "write" =>
       wret \in {wasked, Failure} /\ (wret = Failure <=> failed)

\* Every call returns.
WritesReturn == wpc # "idle" ~> wpc = "idle"

\* The bytes of the medium and of the buffer, which begins at m_stored_data,
\* or at m_current_data while it is flushed.
Image ==
  LET first == IF wpc = "flush" THEN wcur ELSE 0
  IN  [p \in Places |-> IF wpos <= p /\ p < wpos + winbuf THEN wstored[first + p - wpos]
                                                      ELSE file[p]]

Sink == INSTANCE ByteSink WITH
  Length <- MediumLen, at <- woff, call <- wcalls,
  data <- IF failed THEN [p \in Places |-> 0] ELSE Image
ImplementsByteSink == Sink!Spec
=============================================================================
