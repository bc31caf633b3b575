------------------------------- MODULE InStream -------------------------------
(***************************************************************************)
(* The input side of cio.c: opj_stream_read_data, opj_stream_read_skip and *)
(* opj_stream_read_seek over a buffer and the user's read, skip and seek   *)
(* functions.  A call is cut where it calls one of these functions.        *)
(*                                                                         *)
(* A byte of the medium is identified with its position, so that the       *)
(* content of the buffer says where it came from.                          *)
(***************************************************************************)
EXTENDS StreamSizes, Sequences

Garbage == -1
Bytes == 0..(FileLen - 1)
NoResult == -1   \* (OPJ_SIZE_T)-1

VARIABLES
  pos,     \* where the medium is
  stored,  \* m_stored_data
  cur,     \* m_current_data - m_stored_data
  inbuf,   \* m_bytes_in_buffer
  off,     \* m_byte_offset
  ended,   \* OPJ_STREAM_STATUS_END
  pc, op,  \* where the call is, and which
  start, asked,  \* off when it began, and its p_size
  size, count,   \* p_size and l_read_nb_bytes or l_skip_nb_bytes, as they go
  dest,    \* what has been copied to the caller
  ret,     \* what the last call returned
  calls

vars == <<pos, stored, cur, inbuf, off, ended, pc, op, start, asked, size, count,
          dest, ret, calls>>

Init ==
  /\ pos = 0 /\ off = 0 /\ ended = FALSE
  /\ stored = [i \in 0..(BufferSize - 1) |-> Garbage]
  /\ cur = 0 /\ inbuf = 0
  /\ pc = "idle" /\ op = "none" /\ start = 0 /\ asked = 0 /\ size = 0 /\ count = 0
  /\ dest = <<>> /\ ret = 0 /\ calls = 0

\* k bytes from m_current_data.
Buffered(k) == [i \in 1..k |-> stored[cur + i - 1]]
\* k bytes of the medium.
FromMedium(k) == [i \in 1..k |-> pos + i - 1]

\* How many bytes the user's function may answer when asked for k, b being left.
Answers(k, b) ==
  LET most == IF k < b THEN k ELSE b
  IN  IF "short" \in Faults THEN 1..most ELSE {most} \cap (1..most)

Call(o, k) ==
  /\ pc = "idle" /\ calls < MaxCalls
  /\ calls' = calls + 1 /\ op' = o /\ start' = off /\ asked' = k

Return(r) == pc' = "idle" /\ ret' = r
CountOrEnd(c) == IF c = 0 THEN NoResult ELSE c

(***************************************************************************)
(* opj_stream_read_data                                                    *)
(***************************************************************************)
\* The buffer has all that is asked for.
ReadBuffered(k) ==
  /\ Call("read", k) /\ inbuf >= k
  /\ dest' = Buffered(k)
  /\ cur' = cur + k /\ inbuf' = inbuf - k /\ off' = off + k
  /\ Return(k)
  /\ UNCHANGED <<pos, stored, ended, size, count>>

ReadEnded(k) ==
  /\ Call("read", k) /\ inbuf < k /\ ended
  /\ dest' = Buffered(inbuf)
  /\ cur' = cur + inbuf /\ inbuf' = 0 /\ off' = off + inbuf
  /\ Return(CountOrEnd(inbuf))
  /\ UNCHANGED <<pos, stored, ended, size, count>>

\* What the buffer has is not enough: it is copied, then the medium is read.
ReadBegins_OffsetLate(k) ==
  /\ Call("read", k) /\ inbuf < k /\ ~ended
  /\ dest' = Buffered(inbuf)
  /\ cur' = 0 /\ inbuf' = 0 /\ off' = off
  /\ size' = k - inbuf /\ count' = inbuf
  /\ pc' = "read"
  /\ UNCHANGED <<pos, stored, ended, ret>>

ReadBegins(k) ==
  /\ Call("read", k) /\ inbuf < k /\ ~ended
  /\ dest' = Buffered(inbuf)
  /\ cur' = 0 /\ inbuf' = 0 /\ off' = off + inbuf
  /\ size' = k - inbuf /\ count' = inbuf
  /\ pc' = "read"
  /\ UNCHANGED <<pos, stored, ended, ret>>

\* Less than a chunk is missing: a chunk is read into the buffer.
Fill(k) == [i \in 0..(BufferSize - 1) |-> IF i < k THEN pos + i ELSE stored[i]]

ReadChunk ==
  /\ pc = "read" /\ size < BufferSize
  /\ \E k \in Answers(BufferSize, FileLen - pos) :
       LET take == IF k < size THEN k ELSE size
       IN  /\ stored' = Fill(k) /\ pos' = pos + k
           /\ dest' = dest \o [i \in 1..take |-> stored'[cur + i - 1]]
           /\ off' = off + take
           /\ inbuf' = k - take /\ count' = count + take /\ size' = size - take
           /\ IF k < size THEN cur' = 0 /\ UNCHANGED <<pc, ret>>
                          ELSE cur' = cur + take /\ Return(count + take)
  /\ UNCHANGED <<ended, op, start, asked, calls>>

\* A chunk or more is missing: it is read to where the caller wants it.
ReadDirect ==
  /\ pc = "read" /\ size >= BufferSize
  /\ \E k \in Answers(size, FileLen - pos) :
       /\ pos' = pos + k
       /\ dest' = dest \o FromMedium(k)
       /\ off' = off + k /\ count' = count + k /\ size' = size - k
       /\ IF k < size THEN UNCHANGED <<pc, ret>> ELSE Return(count + k)
  /\ cur' = 0 /\ inbuf' = 0
  /\ UNCHANGED <<stored, ended, op, start, asked, calls>>

\* The user's function returns -1.
ReadEnds_TriesAgain ==
  /\ pc = "read" /\ (pos >= FileLen \/ "read" \in Faults)
  /\ UNCHANGED vars

ReadEnds ==
  /\ pc = "read" /\ (pos >= FileLen \/ "read" \in Faults)
  /\ inbuf' = 0 /\ ended' = TRUE
  /\ Return(CountOrEnd(count))
  /\ UNCHANGED <<pos, stored, cur, off, op, start, asked, size, count, dest, calls>>

(***************************************************************************)
(* opj_stream_read_seek                                                    *)
(***************************************************************************)
\* Its effect on the stream.
SeekTo_KeepsBuffer(to) ==
  /\ UNCHANGED <<cur, inbuf>>
  /\ pos' = to /\ off' = to

SeekTo(to) ==
  /\ cur' = 0 /\ inbuf' = 0
  /\ pos' = to /\ off' = to

Seek(to) ==
  /\ Call("seek", to)
  /\ SeekTo(to)
  /\ ended' = FALSE /\ dest' = <<>>
  /\ Return(1)
  /\ UNCHANGED <<stored, size, count>>

\* The buffer is lost although the position does not change.
SeekFails(to) ==
  /\ "seek" \in Faults
  /\ Call("seek", to)
  /\ cur' = 0 /\ inbuf' = 0
  /\ ended' = TRUE /\ dest' = <<>>
  /\ Return(0)
  /\ UNCHANGED <<pos, stored, off, size, count>>

(***************************************************************************)
(* opj_stream_read_skip                                                    *)
(***************************************************************************)
SkipBuffered(k) ==
  /\ Call("skip", k) /\ inbuf >= k
  /\ cur' = cur + k /\ inbuf' = inbuf - k /\ off' = off + k
  /\ dest' = <<>>
  /\ Return(k)
  /\ UNCHANGED <<pos, stored, ended, size, count>>

SkipEnded(k) ==
  /\ Call("skip", k) /\ inbuf < k /\ ended
  /\ cur' = cur + inbuf /\ inbuf' = 0 /\ off' = off + inbuf
  /\ dest' = <<>>
  /\ Return(CountOrEnd(inbuf))
  /\ UNCHANGED <<pos, stored, ended, size, count>>

\* The buffer is passed over; off is brought up to date when the call returns.
SkipBegins(k) ==
  /\ Call("skip", k) /\ inbuf < k /\ ~ended
  /\ size' = k - inbuf /\ count' = inbuf
  /\ cur' = (IF inbuf > 0 THEN 0 ELSE cur) /\ inbuf' = 0
  /\ dest' = <<>> /\ pc' = "skip"
  /\ UNCHANGED <<pos, stored, off, ended, ret>>

PastEnd == off + count + size > UserLength

\* The position goes to the end, which is looked for with a seek; what is
\* returned is what was left after the part of the buffer.
SkipPastEnd ==
  /\ pc = "skip" /\ PastEnd
  /\ \/ SeekTo(UserLength)
     \/ /\ "seek" \in Faults
        /\ cur' = 0 /\ inbuf' = 0 /\ pos' = pos /\ off' = off + count
  /\ ended' = TRUE
  /\ Return(IF UserLength = off + count THEN NoResult ELSE UserLength - (off + count))
  /\ UNCHANGED <<stored, op, start, asked, size, count, dest, calls>>

SkipMedium_LastPiece ==
  /\ pc = "skip" /\ ~PastEnd
  /\ \E k \in Answers(size, size) :
       /\ pos' = pos + k
       /\ size' = size - k /\ count' = count + k
       /\ IF k < size THEN UNCHANGED <<pc, ret, off>>
                      ELSE Return(k) /\ off' = off + count + k
  /\ UNCHANGED <<stored, cur, inbuf, ended, op, start, asked, dest, calls>>

SkipMedium ==
  /\ pc = "skip" /\ ~PastEnd
  /\ \E k \in Answers(size, size) :
       /\ pos' = pos + k
       /\ size' = size - k /\ count' = count + k
       /\ IF k < size THEN UNCHANGED <<pc, ret, off>>
                      ELSE Return(count + k) /\ off' = off + count + k
  /\ UNCHANGED <<stored, cur, inbuf, ended, op, start, asked, dest, calls>>

SkipFails ==
  /\ "skip" \in Faults
  /\ pc = "skip" /\ ~PastEnd
  /\ ended' = TRUE /\ off' = off + count
  /\ Return(CountOrEnd(count))
  /\ UNCHANGED <<pos, stored, cur, inbuf, op, start, asked, size, count, dest, calls>>

\* The codec stops calling.
Over == pc = "idle" /\ calls = MaxCalls /\ UNCHANGED vars
-----------------------------------------------------------------------------
Begin ==
  \/ \E k \in 0..MaxSize :
       \/ ReadBuffered(k) \/ ReadEnded(k) \/ ReadBegins(k)
       \/ SkipBuffered(k) \/ SkipEnded(k) \/ SkipBegins(k)
  \/ \E to \in 0..FileLen : Seek(to) \/ SeekFails(to)

Continue ==
  \/ ReadChunk \/ ReadDirect \/ ReadEnds
  \/ SkipPastEnd \/ SkipMedium \/ SkipFails

Next == Begin \/ Continue \/ Over

Spec == Init /\ [][Next]_vars

\* A call that has begun runs; the user's functions return.
FairSpec == Spec /\ WF_vars(Continue)
-----------------------------------------------------------------------------
\* The variables range over what the code can store in them, and the part of
\* the buffer in use is inside the buffer.
TypeOK ==
  /\ pos \in 0..FileLen /\ off \in 0..FileLen
  /\ stored \in [0..(BufferSize - 1) -> Bytes \cup {Garbage}]
  /\ cur \in 0..BufferSize /\ inbuf \in 0..BufferSize /\ cur + inbuf <= BufferSize
  /\ ended \in BOOLEAN
  /\ pc \in {"idle", "read", "skip"} /\ op \in {"none", "read", "skip", "seek"}
  /\ start \in 0..FileLen /\ asked \in Nat /\ size \in Nat /\ count \in Nat
  /\ dest \in Seq(Bytes) /\ ret \in Int
  /\ calls \in 0..MaxCalls

\* The next byte of the buffer is the byte of the medium at m_byte_offset, and
\* after the buffer comes what the medium gives next.
Positioned ==
  /\ \A i \in 0..(inbuf - 1) : stored[cur + i] = off + i
  /\ pc = "skip" => inbuf = 0 /\ pos = off + count
  /\ IF ended THEN inbuf = 0
              ELSE pc # "skip" => pos = off + inbuf

\* A read returns the number of bytes it has copied and moved over, and fewer
\* than asked for only if the end has been met.
ReadReturnsCount ==
  pc = "idle" /\ op = "read" =>
    /\ ret = (IF off = start /\ asked > 0 THEN NoResult ELSE off - start)
    /\ Len(dest) = off - start
    /\ off - start < asked => ended

\* A skip that stays within the length the user gave returns by how much it has
\* moved, whether the bytes were in the buffer, on the medium, or in both.  (One
\* that goes past it returns what was left after the buffer's part.)
SkipReturnsCount ==
  pc = "idle" /\ op = "skip" /\ start + asked <= UserLength =>
    ret = (IF off = start /\ asked > 0 THEN NoResult ELSE off - start)

\* What a call returns is what it has done, in variables that keep their types.
CountsReturned == TypeOK /\ ReadReturnsCount /\ SkipReturnsCount

\* Every call returns.
ReadsReturn == pc # "idle" ~> pc = "idle"

\* What the codecs see is a run of bytes with a position.
Source == INSTANCE ByteSource WITH
  Length <- FileLen, at <- off, bytes <- dest
ImplementsByteSource == Source!Spec
=============================================================================
