--------------------------- MODULE OutStreamProofs ---------------------------
(***************************************************************************)
(* The output stream keeps its buffer, its offset and the medium together, *)
(* whatever the user's functions answer, for every size of the buffer and  *)
(* of the medium, and implements ByteSink.                                 *)
(***************************************************************************)
EXTENDS OutStream, TLAPS

\* How far the operation under way may still go.
Within ==
  /\ woff \in 0..MediumLen /\ wsize \in Nat /\ wcount \in Nat /\ wcalls \in Nat
  /\ wpc = "write" => wop = "write"
  /\ wpc \in {"write", "flush"} /\ wop = "write" => woff + wsize <= MediumLen
  /\ wpc \in {"flush", "skip"} /\ wop = "skip" => woff + wcount + wsize <= MediumLen
  /\ wpc \in {"flush", "seek"} /\ wop = "seek" => wsize <= MediumLen
  /\ wpc = "skip" => wop = "skip"
  /\ wpc = "seek" => wop = "seek"

\* Where the buffer is: from m_stored_data up to m_current_data, or, in a flush,
\* from m_current_data on.
Shape ==
  /\ wpc \in {"idle", "write", "flush", "skip", "seek"}
  /\ wop \in {"none", "write", "flush", "skip", "seek"}
  /\ failed \in BOOLEAN /\ wpos \in Int /\ wcur \in Nat /\ winbuf \in Nat
  /\ winbuf <= BufferSize
  /\ wpc = "write" => ~failed
  /\ wpc \in {"skip", "seek"} => winbuf = 0 /\ wcur = 0
  /\ wpc \in {"flush", "skip"} /\ wop \in {"write", "skip"} => ~failed
  /\ wpc \in {"idle", "write"} /\ ~failed => wcur = winbuf
  /\ wpc = "flush" => wcur + winbuf <= BufferSize /\ wop # "none"
  /\ wpc = "flush" /\ wop = "skip" => wcount = 0
  /\ wstored \in [0..(BufferSize - 1) -> Int] /\ file \in [Places -> Int]

IInv == Within /\ Shape /\ OffsetIsPosition

LEMMA InitInv == OutInit => IInv
<1> SUFFICES ASSUME OutInit PROVE IInv
  OBVIOUS
<1>0. failed \in BOOLEAN /\ ~failed
  BY DEF OutInit
<1>1. wstored \in [0..(BufferSize - 1) -> Int] /\ file \in [Places -> Int]
  BY DEF OutInit
<1>2. Within
  BY StreamAssumption DEF OutInit, Within
<1>3. Shape
  BY <1>0, <1>1, StreamAssumption DEF OutInit, Shape
<1> QED
  BY <1>2, <1>3 DEF OutInit, IInv, OffsetIsPosition

\* What the user's function answers is not more than was asked for.
LEMMA AnswersBound ==
  ASSUME NEW k \in Nat, NEW a \in OutAnswers(k)
  PROVE  a \in Nat /\ a <= k
  BY DEF OutAnswers

LEMMA FlushBeginsInv ==
  ASSUME IInv, NEW o \in {"flush", "skip", "seek"}, NEW k \in Nat, FlushBegins(o, k),
         o = "skip" => ~failed /\ woff + k <= MediumLen,
         o = "seek" => k <= MediumLen
  PROVE  IInv'
  BY StreamAssumption
  DEF FlushBegins, OutCall, IInv, Within, Shape, OffsetIsPosition

LEMMA BeginInv ==
  ASSUME IInv, OutBegin
  PROVE  IInv'
<1> USE StreamAssumption DEF IInv, Within, Shape, OffsetIsPosition
<1>1. ASSUME NEW k \in 0..MaxSize, WriteRefused(k) PROVE IInv'
  BY <1>1 DEF WriteRefused, OutCall, OutReturn
<1>2. ASSUME NEW k \in 0..MaxSize, WriteBegins(k) PROVE IInv'
  BY <1>2 DEF WriteBegins, OutCall
<1>3. ASSUME NEW k \in 0..MaxSize, WriteSkipRefused(k) PROVE IInv'
  BY <1>3 DEF WriteSkipRefused, OutCall, OutReturn
<1>4. ASSUME NEW k \in 0..MaxSize, WriteSkipBegins(k) PROVE IInv'
  BY <1>4, FlushBeginsInv DEF WriteSkipBegins
<1>5. ASSUME NEW to \in Places, WriteSeekBegins(to) PROVE IInv'
  <2>1. to \in Nat /\ to <= MediumLen /\ FlushBegins("seek", to)
    BY <1>5 DEF WriteSeekBegins, Places
  <2> QED
    BY <2>1, FlushBeginsInv
<1>6. CASE Flush
  BY <1>6, FlushBeginsInv DEF Flush
<1> QED
  BY <1>1, <1>2, <1>3, <1>4, <1>5, <1>6 DEF OutBegin

\* The types of what a copy and a write of the user's function leave.
LEMMA CopyType ==
  ASSUME IInv, NEW k \in Nat, Copy(k)
  PROVE  wstored' \in [0..(BufferSize - 1) -> Int]
  BY StreamAssumption DEF IInv, Shape, Within, Copy

LEMMA TakenType ==
  ASSUME IInv, wpc = "flush", NEW k \in Nat, k <= winbuf
  PROVE  Taken(k) \in [Places -> Int]
<1>1. ASSUME NEW p \in Places, wpos <= p, p < wpos + k
      PROVE  wstored[wcur + p - wpos] \in Int
  <2>1. wcur + p - wpos \in 0..(BufferSize - 1)
    BY <1>1, StreamAssumption DEF IInv, Shape, Places
  <2> QED
    BY <2>1 DEF IInv, Shape
<1> QED
  BY <1>1 DEF Taken, IInv, Shape, Places

\* A write of the user's function, of k bytes, in a flush.
LEMMA TakesInv ==
  ASSUME IInv, wpc = "flush", NEW k \in Nat, k <= winbuf,
         file' = Taken(k), wpos' = wpos + k, wcur' = wcur + k, winbuf' = winbuf - k,
         UNCHANGED <<wstored, woff, failed, wpc, wop, wsize, wcount, wcalls>>
  PROVE  IInv'
<1>1. file' \in [Places -> Int]
  BY TakenType
<1>2. Shape'
  BY <1>1, StreamAssumption DEF IInv, Shape
<1>3. Within'
  BY DEF IInv, Within
<1>4. OffsetIsPosition'
  BY StreamAssumption DEF IInv, Shape, Within, OffsetIsPosition
<1> QED
  BY <1>2, <1>3, <1>4 DEF IInv

LEMMA ContinueInv ==
  ASSUME IInv, OutContinue
  PROVE  IInv'
<1> USE StreamAssumption DEF IInv, Within, Shape, OffsetIsPosition
<1>1. CASE WriteFits
  <2>1. wstored' \in [0..(BufferSize - 1) -> Int]
    BY <1>1, CopyType DEF WriteFits
  <2> QED
    BY <1>1, <2>1 DEF WriteFits, Copy, Room, OutReturn
<1>2. CASE WriteFills
  <2>1. Room \in Nat
    BY <1>2 DEF WriteFills, Room
  <2>2. wstored' \in [0..(BufferSize - 1) -> Int]
    BY <1>2, <2>1, CopyType DEF WriteFills
  <2> QED
    BY <1>2, <2>1, <2>2 DEF WriteFills, Copy, Room
<1>3. CASE FlushSome
  <2>1. PICK k \in OutAnswers(winbuf) :
          file' = Taken(k) /\ wpos' = wpos + k /\ wcur' = wcur + k /\ winbuf' = winbuf - k
    BY <1>3 DEF FlushSome
  <2>2. k \in Nat /\ k <= winbuf
    BY AnswersBound
  <2> QED
    BY <1>3, <2>1, <2>2, TakesInv DEF FlushSome
<1>4. CASE FlushToFull
  <2> DEFINE k == IF wpos < Capacity THEN Capacity - wpos ELSE 0
  <2>1. file' = Taken(k) /\ wpos' = wpos + k /\ wcur' = wcur + k /\ winbuf' = winbuf - k
    BY <1>4 DEF FlushToFull
  <2>2. k \in Nat /\ k <= winbuf
    BY <1>4 DEF FlushToFull
  <2> QED
    BY <1>4, <2>1, <2>2, TakesInv DEF FlushToFull
<1>5. CASE FlushFails
  BY <1>5 DEF FlushFails, OutReturn
<1>6. CASE FlushEnds
  BY <1>6 DEF FlushEnds, OutReturn
<1>7. CASE WriteSkipMedium
  <2>1. PICK k \in OutAnswers(wsize) :
          wpos' = wpos + k /\ wsize' = wsize - k /\ wcount' = wcount + k
    BY <1>7 DEF WriteSkipMedium
  <2>2. k \in Nat /\ k <= wsize
    BY AnswersBound
  <2> QED
    BY <1>7, <2>1, <2>2 DEF WriteSkipMedium
<1>8. CASE WriteSkipFails
  BY <1>8 DEF WriteSkipFails, OutReturn
<1>9. CASE WriteSkipEnds
  BY <1>9 DEF WriteSkipEnds, OutReturn
<1>10. CASE WriteSeekMedium
  BY <1>10 DEF WriteSeekMedium, OutReturn
<1>11. CASE WriteSeekFails
  BY <1>11 DEF WriteSeekFails, OutReturn
<1> QED
  BY <1>1, <1>2, <1>3, <1>4, <1>5, <1>6, <1>7, <1>8, <1>9, <1>10, <1>11 DEF OutContinue

LEMMA NextInv == IInv /\ [OutNext]_outVars => IInv'
<1> SUFFICES ASSUME IInv, [OutNext]_outVars PROVE IInv'
  OBVIOUS
<1>1. CASE UNCHANGED outVars
  BY <1>1 DEF outVars, IInv, Within, Shape, OffsetIsPosition
<1>2. CASE OutOver
  BY <1>2 DEF OutOver, outVars, IInv, Within, Shape, OffsetIsPosition
<1> QED
  BY <1>1, <1>2, BeginInv, ContinueInv DEF OutNext

LEMMA Invariance == OutSpec => []IInv
  BY InitInv, NextInv, PTL DEF OutSpec

\* As long as no function of the user has failed, m_byte_offset is where the
\* medium will be once the buffer has been written, after any calls.
THEOREM OffsetCorrect == OutSpec => []OffsetIsPosition
<1>1. IInv => OffsetIsPosition
  BY DEF IInv
<1> QED
  BY <1>1, Invariance, PTL

-----------------------------------------------------------------------------
(***************************************************************************)
(* The stream implements ByteSink.                                         *)
(***************************************************************************)
\* Once a function has failed nothing is promised.
LEMMA FailSimulates ==
  ASSUME IInv', failed', wcalls' \in {wcalls, wcalls + 1}
  PROVE  Sink!Next
  BY DEF IInv, Within, Sink!Next, Sink!Fail, Sink!Lost, Sink!Places, Places

\* A call, or its end, that moves the position and leaves the bytes alone.
LEMMA MoveSimulates ==
  ASSUME IInv, IInv', ~failed, UNCHANGED <<failed, Image>>, wcalls' \in {wcalls, wcalls + 1}
  PROVE  Sink!Next
<1>1. woff' \in 0..MediumLen
  BY DEF IInv, Within
<1>2. Sink!Move(woff')
  BY DEF Sink!Move
<1> QED
  BY <1>1, <1>2 DEF Sink!Next

LEMMA StutterSimulates ==
  ASSUME ~failed, UNCHANGED <<failed, Image, woff, wcalls>>
  PROVE  UNCHANGED Sink!vars
  BY DEF Sink!vars

\* Bytes of the caller are copied behind those in the buffer.
LEMMA CopySimulates ==
  ASSUME IInv, ~failed, wpc = "write", NEW k \in Nat, k <= Room, k <= wsize, Copy(k),
         wpc' = "flush" => wcur' = 0, UNCHANGED <<file, wpos, failed, wcalls>>
  PROVE  Sink!Next
<1> USE StreamAssumption DEF IInv, Within, Shape, OffsetIsPosition
<1>1. k \in 0..(MediumLen - woff)
  OBVIOUS
<1>2. ASSUME NEW p \in Places
      PROVE  Image'[p] = IF woff <= p /\ p < woff + k THEN wcalls' ELSE Image[p]
  <2>1. wpos <= p /\ p < wpos + winbuf + k =>
          wstored'[p - wpos] = IF winbuf <= p - wpos THEN wcalls ELSE wstored[p - wpos]
    BY <1>1 DEF Copy, Places, Room
  <2>2. Image[p] = IF wpos <= p /\ p < wpos + winbuf THEN wstored[p - wpos] ELSE file[p]
    BY DEF Image, Places
  <2>3. Image'[p] = IF wpos <= p /\ p < wpos + winbuf + k THEN wstored'[p - wpos] ELSE file[p]
    BY DEF Image, Places, Copy
  <2> QED
    BY <2>1, <2>2, <2>3 DEF Places
<1>3. Image' = [p \in Places |-> IF woff <= p /\ p < woff + k THEN wcalls' ELSE Image[p]]
  BY <1>2 DEF Image
<1>4. Sink!Write(k)
  BY <1>3 DEF Sink!Write, Copy, Sink!Places, Places
<1> QED
  BY <1>1, <1>4 DEF Sink!Next

\* What the user's function takes from the buffer is on the medium.
LEMMA TakesSimulates ==
  ASSUME IInv, ~failed, wpc = "flush", NEW k \in Nat, k <= winbuf,
         file' = Taken(k), wpos' = wpos + k, wcur' = wcur + k, winbuf' = winbuf - k,
         UNCHANGED <<wstored, woff, failed, wpc, wcalls>>
  PROVE  UNCHANGED Sink!vars
<1> USE StreamAssumption DEF IInv, Within, Shape, OffsetIsPosition
<1>1. ASSUME NEW p \in Places PROVE Image'[p] = Image[p]
  <2>1. Image[p] = IF wpos <= p /\ p < wpos + winbuf THEN wstored[wcur + p - wpos] ELSE file[p]
    BY DEF Image, Places
  <2>2. Image'[p] = IF wpos + k <= p /\ p < wpos + winbuf THEN wstored[wcur + p - wpos]
                                                     ELSE Taken(k)[p]
    BY DEF Image, Places
  <2>3. Taken(k)[p] = IF wpos <= p /\ p < wpos + k THEN wstored[wcur + p - wpos] ELSE file[p]
    BY DEF Taken, Places
  <2> QED
    BY <2>1, <2>2, <2>3 DEF Places
<1>2. Image' = Image
  BY <1>1 DEF Image
<1> QED
  BY <1>2, StutterSimulates

\* An empty buffer shows nothing.
LEMMA NothingBetween ==
  ASSUME NEW a \in Int, NEW n, n = 0, NEW p \in Int
  PROVE  ~(a <= p /\ p < a + n)
  OBVIOUS

LEMMA BeginSimulates ==
  ASSUME IInv, IInv', OutBegin
  PROVE  Sink!Next
<1>1. wcalls' = wcalls + 1 /\ failed' = failed
  BY DEF OutBegin, WriteRefused, WriteBegins, WriteSkipRefused, WriteSkipBegins,
         WriteSeekBegins, Flush,
         FlushBegins, OutCall
<1>2. CASE failed
  BY <1>1, <1>2, FailSimulates
<1>3. CASE ~failed
  <2>1. UNCHANGED <<file, wpos, wstored, winbuf>> /\ wpc = "idle"
          /\ (wpc' = "flush" => wcur' = 0)
    BY <1>3 DEF OutBegin, WriteRefused, WriteBegins, WriteSkipRefused, WriteSkipBegins,
         WriteSeekBegins,
                Flush, FlushBegins, OutCall
  <2>2. Image' = Image
    BY <2>1 DEF Image
  <2> QED
    BY <1>1, <1>3, <2>2, MoveSimulates
<1> QED
  BY <1>2, <1>3

LEMMA ContinueSimulates ==
  ASSUME IInv, IInv', OutContinue
  PROVE  Sink!Next \/ UNCHANGED Sink!vars
<1>1. wcalls' = wcalls
  BY DEF OutContinue, WriteFits, WriteFills, FlushSome, FlushToFull, FlushFails, FlushEnds,
         WriteSkipMedium, WriteSkipFails, WriteSkipEnds, WriteSeekMedium, WriteSeekFails
<1>2. CASE failed'
  BY <1>1, <1>2, FailSimulates
<1>3. CASE ~failed'
  <2>1. ~failed /\ failed' = failed
    BY <1>3 DEF OutContinue, WriteFits, WriteFills, FlushSome, FlushToFull, FlushFails,
                FlushEnds, WriteSkipMedium, WriteSkipFails, WriteSkipEnds,
                WriteSeekMedium, WriteSeekFails
  <2>2. CASE WriteFits
    BY <1>1, <2>1, <2>2, CopySimulates DEF WriteFits, OutReturn, IInv, Within
  <2>3. CASE WriteFills
    <3>1. Room \in Nat /\ Room <= wsize
      BY <2>3, StreamAssumption DEF WriteFills, Room, IInv, Shape, Within
    <3> QED
      BY <1>1, <2>1, <2>3, <3>1, CopySimulates DEF WriteFills
  <2>4. CASE FlushSome
    <3>1. PICK k \in OutAnswers(winbuf) :
            file' = Taken(k) /\ wpos' = wpos + k /\ wcur' = wcur + k /\ winbuf' = winbuf - k
      BY <2>4 DEF FlushSome
    <3>2. k \in Nat /\ k <= winbuf
      BY AnswersBound DEF IInv, Shape
    <3> QED
      BY <1>1, <2>1, <2>4, <3>1, <3>2, TakesSimulates DEF FlushSome
  <2>5. CASE FlushToFull
    <3> DEFINE k == IF wpos < Capacity THEN Capacity - wpos ELSE 0
    <3>1. file' = Taken(k) /\ wpos' = wpos + k /\ wcur' = wcur + k /\ winbuf' = winbuf - k
      BY <2>5 DEF FlushToFull
    <3>2. k \in Nat /\ k <= winbuf
      BY <2>5, StreamAssumption DEF FlushToFull, IInv, Shape
    <3> QED
      BY <1>1, <2>1, <2>5, <3>1, <3>2, TakesSimulates DEF FlushToFull
  <2>6. CASE FlushFails
    BY <1>3, <2>6 DEF FlushFails
  <2>7. CASE FlushEnds \/ WriteSkipMedium \/ WriteSkipEnds \/ WriteSeekMedium
    <3>1. winbuf = 0 /\ winbuf' = 0
      BY <2>7 DEF FlushEnds, WriteSkipMedium, WriteSkipEnds, WriteSeekMedium, IInv, Shape
    <3>2. file' = file
      BY <2>7 DEF FlushEnds, WriteSkipMedium, WriteSkipEnds, WriteSeekMedium
    <3>3. ASSUME NEW p \in Places
          PROVE  ~(wpos <= p /\ p < wpos + winbuf) /\ ~(wpos' <= p /\ p < wpos' + winbuf')
      <4>1. wpos \in Int /\ wpos' \in Int /\ p \in Int
        BY DEF IInv, Shape, Places
      <4> QED
        BY <3>1, <4>1, NothingBetween
    <3>4. Image' = Image
      BY <3>2, <3>3 DEF Image
    <3> QED
      BY <1>1, <2>1, <3>4, MoveSimulates
  <2>8. CASE WriteSkipFails
    BY <1>3, <2>8 DEF WriteSkipFails
  <2>9. CASE WriteSeekFails
    BY <1>3, <2>9 DEF WriteSeekFails
  <2> QED
    BY <2>2, <2>3, <2>4, <2>5, <2>6, <2>7, <2>8, <2>9 DEF OutContinue
<1> QED
  BY <1>2, <1>3

\* What the codecs write stands where the position was when it was written,
\* whatever the size of the buffer and however little the user's functions take,
\* as long as none of them fails.
THEOREM Refinement == OutSpec => ImplementsByteSink
<1>1. OutInit => Sink!Init
  <2> SUFFICES ASSUME OutInit PROVE Sink!Init
    OBVIOUS
  <2>1. ~failed /\ failed = FALSE
    BY DEF OutInit
  <2>2. ASSUME NEW p \in Places PROVE Image[p] = 0
    BY DEF OutInit, Image, Places
  <2>3. Image = [p \in Places |-> 0]
    BY <2>2 DEF Image
  <2> QED
    BY <2>1, <2>3 DEF OutInit, Sink!Init, Sink!Lost, Sink!Places, Places
<1>2. IInv /\ IInv' /\ [OutNext]_outVars => [Sink!Next]_Sink!vars
  <2> SUFFICES ASSUME IInv, IInv', [OutNext]_outVars PROVE [Sink!Next]_Sink!vars
    OBVIOUS
  <2>1. CASE UNCHANGED outVars
    BY <2>1 DEF outVars, Sink!vars, Image
  <2>2. CASE OutOver
    BY <2>2 DEF OutOver, outVars, Sink!vars, Image
  <2> QED
    BY <2>1, <2>2, BeginSimulates, ContinueSimulates DEF OutNext
<1> QED
  BY <1>1, <1>2, Invariance, PTL DEF OutSpec, ImplementsByteSink, Sink!Spec
-----------------------------------------------------------------------------
\* The values stored, the room on the medium, and how far a write has come.
Progress ==
  /\ wstored \in [0..(BufferSize - 1) -> 0..MaxCalls] /\ file \in [Places -> 0..MaxCalls]
  /\ wcalls \in 0..MaxCalls /\ wasked \in Nat /\ wret \in Int
  /\ 0 <= wpos /\ wpos + winbuf <= MediumLen
  /\ wpc \in {"write", "flush"} /\ wop = "write" => wcount + wsize = wasked /\ ~failed
  /\ wpc = "idle" /\ wop = "write" => wret \in {wasked, Failure} /\ (wret = Failure <=> failed)

LEMMA ProgressInit == OutInit => Progress
<1> SUFFICES ASSUME OutInit PROVE Progress
  OBVIOUS
<1>1. wstored \in [0..(BufferSize - 1) -> 0..MaxCalls] /\ file \in [Places -> 0..MaxCalls]
  BY StreamAssumption DEF OutInit
<1> QED
  BY <1>1, StreamAssumption DEF OutInit, Progress

LEMMA ProgressFlush ==
  ASSUME IInv, Progress, NEW o \in {"flush", "skip", "seek"}, NEW k \in Nat, FlushBegins(o, k)
  PROVE  Progress'
BY StreamAssumption DEF FlushBegins, OutCall, Progress, IInv, Shape, Within

LEMMA ProgressBegin ==
  ASSUME IInv, Progress, OutBegin
  PROVE  Progress'
<1> USE StreamAssumption DEF Progress, IInv, Shape, Within, OutCall, OutReturn, Failure
<1>1. ASSUME NEW k \in 0..MaxSize, WriteRefused(k) PROVE Progress'
  BY <1>1 DEF WriteRefused
<1>2. ASSUME NEW k \in 0..MaxSize, WriteBegins(k) PROVE Progress'
  BY <1>2 DEF WriteBegins
<1>3. ASSUME NEW k \in 0..MaxSize, WriteSkipRefused(k) PROVE Progress'
  BY <1>3 DEF WriteSkipRefused
<1>4. ASSUME NEW k \in 0..MaxSize, WriteSkipBegins(k) PROVE Progress'
  BY <1>4, ProgressFlush DEF WriteSkipBegins
<1>5. ASSUME NEW to \in Places, WriteSeekBegins(to) PROVE Progress'
  <2>1. to \in Nat /\ FlushBegins("seek", to)
    BY <1>5 DEF WriteSeekBegins, Places
  <2> QED
    BY <2>1, ProgressFlush
<1>6. CASE Flush
  BY <1>6, ProgressFlush DEF Flush
<1> QED
  BY <1>1, <1>2, <1>3, <1>4, <1>5, <1>6 DEF OutBegin

\* The bytes of a call are put in the buffer.
LEMMA ProgressCopy ==
  ASSUME IInv, Progress, wpc = "write", NEW k \in Nat, k <= wsize, Copy(k)
  PROVE  /\ wstored' \in [0..(BufferSize - 1) -> 0..MaxCalls]
         /\ 0 <= wpos /\ wpos + (winbuf + k) <= MediumLen
         /\ (wcount + k) + (wsize - k) = wasked
<1>1. wcalls \in 0..MaxCalls /\ wstored \in [0..(BufferSize - 1) -> 0..MaxCalls]
  BY DEF Progress
<1>2. wstored' \in [0..(BufferSize - 1) -> 0..MaxCalls]
  BY <1>1 DEF Copy
<1>3. /\ wpos + winbuf = woff /\ woff + wsize <= MediumLen
      /\ wpos \in Int /\ winbuf \in Nat /\ wsize \in Nat
  BY DEF IInv, Shape, Within, OffsetIsPosition
<1>4. 0 <= wpos /\ wpos + (winbuf + k) <= MediumLen
  BY <1>3, StreamAssumption DEF Progress
<1>5. wcount + wsize = wasked /\ wcount \in Nat /\ wsize \in Nat
  BY DEF IInv, Shape, Within, Progress
<1>6. (wcount + k) + (wsize - k) = wasked
  BY <1>5
<1> QED
  BY <1>2, <1>4, <1>6

\* The user's function takes k bytes of the buffer.
LEMMA ProgressTakes ==
  ASSUME IInv, Progress, wpc = "flush", NEW k \in Nat, k <= winbuf,
         file' = Taken(k), wpos' = wpos + k, winbuf' = winbuf - k,
         UNCHANGED <<wstored, woff, failed, wpc, wop, wasked, wsize, wcount, wret, wcalls>>
  PROVE  Progress'
<1>1. ASSUME NEW p \in Places, wpos <= p, p < wpos + k
      PROVE  wstored[wcur + p - wpos] \in 0..MaxCalls
  <2>1. wcur + p - wpos \in 0..(BufferSize - 1)
    BY <1>1, StreamAssumption DEF IInv, Shape, Places
  <2> QED
    BY <2>1 DEF Progress
<1>2. Taken(k) \in [Places -> 0..MaxCalls]
  BY <1>1 DEF Taken, Progress, IInv, Shape, Places
<1>3. 0 <= wpos + k /\ (wpos + k) + (winbuf - k) <= MediumLen
  BY StreamAssumption DEF Progress, IInv, Shape
<1> QED
  BY <1>2, <1>3 DEF Progress

LEMMA ProgressContinue ==
  ASSUME IInv, Progress, OutContinue
  PROVE  Progress'
<1> USE StreamAssumption DEF OutReturn, Failure
<1>1. CASE WriteFits
  <2>1. /\ wpc = "write" /\ Copy(wsize) /\ wpc' = "idle" /\ wret' = wcount + wsize
        /\ UNCHANGED <<file, wpos, failed, wop, wasked, wcalls>>
        /\ winbuf' = winbuf + wsize
    BY <1>1 DEF WriteFits, Copy
  <2>2. wsize \in Nat /\ wcount + wsize = wasked /\ wasked \in Nat /\ ~failed
    BY <2>1 DEF IInv, Shape, Within, Progress
  <2>3. /\ wstored' \in [0..(BufferSize - 1) -> 0..MaxCalls]
        /\ 0 <= wpos /\ wpos + (winbuf + wsize) <= MediumLen
    BY <2>1, <2>2, ProgressCopy
  <2>4. wret' \in {wasked, Failure} /\ (wret' = Failure <=> failed') /\ wret' \in Int
    BY <2>1, <2>2
  <2> QED
    BY <2>1, <2>3, <2>4 DEF Progress
<1>2. CASE WriteFills
  <2>1. /\ wpc = "write" /\ Copy(Room) /\ wpc' = "flush" /\ Room < wsize
        /\ UNCHANGED <<file, wpos, failed, wop, wasked, wcalls, wret>>
        /\ winbuf' = winbuf + Room /\ wcount' = wcount + Room /\ wsize' = wsize - Room
    BY <1>2 DEF WriteFills, Copy
  <2>2. Room \in Nat /\ Room <= wsize /\ ~failed
    BY <2>1 DEF IInv, Shape, Within, Room
  <2>3. /\ wstored' \in [0..(BufferSize - 1) -> 0..MaxCalls]
        /\ 0 <= wpos /\ wpos + (winbuf + Room) <= MediumLen
        /\ (wcount + Room) + (wsize - Room) = wasked
    BY <2>1, <2>2, ProgressCopy
  <2> QED
    BY <2>1, <2>2, <2>3 DEF Progress
<1>3. CASE FlushSome
  <2>1. PICK k \in OutAnswers(winbuf) :
          file' = Taken(k) /\ wpos' = wpos + k /\ winbuf' = winbuf - k
    BY <1>3 DEF FlushSome
  <2>2. k \in Nat /\ k <= winbuf
    BY AnswersBound DEF IInv, Shape
  <2> QED
    BY <1>3, <2>1, <2>2, ProgressTakes DEF FlushSome
<1>4. CASE FlushToFull
  <2> DEFINE k == IF wpos < Capacity THEN Capacity - wpos ELSE 0
  <2>1. file' = Taken(k) /\ wpos' = wpos + k /\ winbuf' = winbuf - k
    BY <1>4 DEF FlushToFull
  <2>2. k \in Nat /\ k <= winbuf
    BY <1>4 DEF FlushToFull, IInv, Shape
  <2> QED
    BY <1>4, <2>1, <2>2, ProgressTakes DEF FlushToFull
<1>5. CASE FlushFails
  <2>1. /\ wpc = "flush" /\ failed' = TRUE /\ wpc' = "idle" /\ wret' = Failure
        /\ winbuf' \in {0, winbuf}
        /\ UNCHANGED <<file, wpos, wstored, wop, wasked, wcalls>>
    BY <1>5 DEF FlushFails
  <2>2. wpos + winbuf <= MediumLen /\ wpos + 0 <= MediumLen
    BY DEF Progress, IInv, Shape
  <2> QED
    BY <2>1, <2>2 DEF Progress
<1>6. CASE FlushEnds
  BY <1>6 DEF FlushEnds, Progress
<1>7. CASE WriteSkipMedium
  <2>1. PICK k \in OutAnswers(wsize) : wpos' = wpos + k
    BY <1>7 DEF WriteSkipMedium
  <2>2. k \in Nat /\ k <= wsize
    BY AnswersBound DEF IInv, Within
  <2>3. /\ wpc = "skip" /\ wop = "skip"
        /\ UNCHANGED <<file, wstored, winbuf, wpc, wop, wasked, wret, wcalls>>
    BY <1>7 DEF WriteSkipMedium, IInv, Within
  <2>4. winbuf = 0 /\ wpos = woff + wcount /\ woff + wcount + wsize <= MediumLen
    BY <2>3 DEF IInv, Shape, Within, OffsetIsPosition
  <2>5. 0 <= wpos + k /\ (wpos + k) + winbuf <= MediumLen
    BY <2>2, <2>4 DEF IInv, Shape, Within, Progress
  <2> QED
    BY <2>1, <2>3, <2>5 DEF Progress
<1>8. CASE WriteSkipFails \/ WriteSkipEnds
  <2>1. /\ wpc = "skip" /\ wop = "skip" /\ wret' \in {Failure, wcount} /\ wpc' = "idle"
        /\ UNCHANGED <<file, wpos, wstored, winbuf, wop, wasked, wcalls>>
    BY <1>8 DEF WriteSkipFails, WriteSkipEnds, IInv, Within
  <2> QED
    BY <2>1 DEF Progress, IInv, Within
<1>9. CASE WriteSeekMedium
  <2>1. /\ wpc = "seek" /\ wop = "seek" /\ wret' = 1 /\ wpc' = "idle" /\ wpos' = wsize
        /\ UNCHANGED <<file, wstored, winbuf, wop, wasked, wcalls>>
    BY <1>9 DEF WriteSeekMedium, IInv, Within
  <2>2. winbuf = 0 /\ 0 <= wsize /\ wsize + winbuf <= MediumLen
    BY <2>1 DEF IInv, Shape, Within
  <2> QED
    BY <2>1, <2>2 DEF Progress
<1>10. CASE WriteSeekFails
  <2>1. /\ wpc = "seek" /\ wop = "seek" /\ wret' = Failure /\ wpc' = "idle"
        /\ UNCHANGED <<file, wpos, wstored, winbuf, wop, wasked, wcalls>>
    BY <1>10 DEF WriteSeekFails, IInv, Within
  <2> QED
    BY <2>1 DEF Progress
<1> QED
  BY <1>1, <1>2, <1>3, <1>4, <1>5, <1>6, <1>7, <1>8, <1>9, <1>10 DEF OutContinue

\* m_current_data does not leave the buffer.
Inside == wcur <= BufferSize

LEMMA CurInside ==
  ASSUME IInv, Inside, [OutNext]_outVars
  PROVE  Inside'
<1> USE StreamAssumption DEF IInv, Shape, Inside
<1>1. CASE OutBegin
  BY <1>1 DEF OutBegin, WriteRefused, WriteBegins, WriteSkipRefused, WriteSkipBegins,
         WriteSeekBegins,
     Flush, FlushBegins
<1>2. CASE WriteFits
  <2>1. wcur' = wcur + wsize /\ wsize <= BufferSize - winbuf /\ wcur = winbuf /\ wsize \in Nat
    BY <1>2 DEF WriteFits, Room, Within
  <2>2. wcur + wsize <= BufferSize
    BY <2>1
  <2> QED
    BY <2>1, <2>2
<1>3. CASE FlushSome
  <2>1. PICK k \in OutAnswers(winbuf) : wcur' = wcur + k
    BY <1>3 DEF FlushSome
  <2>2. k \in Nat /\ k <= winbuf
    BY AnswersBound
  <2>3. wcur + k <= BufferSize
    BY <1>3, <2>2 DEF FlushSome
  <2> QED
    BY <2>1, <2>3
<1>4. CASE FlushToFull
  <2> DEFINE k == IF wpos < Capacity THEN Capacity - wpos ELSE 0
  <2>1. wcur' = wcur + k /\ k \in Nat /\ k <= winbuf
    BY <1>4 DEF FlushToFull
  <2>2. wcur + k <= BufferSize
    BY <1>4, <2>1 DEF FlushToFull
  <2> QED
    BY <2>1, <2>2
<1>5. CASE WriteFills \/ FlushEnds
  BY <1>5 DEF WriteFills, FlushEnds
<1>6. CASE \/ FlushFails \/ WriteSkipMedium \/ WriteSkipFails \/ WriteSkipEnds \/ WriteSeekMedium
           \/ WriteSeekFails \/ UNCHANGED outVars
  BY <1>6 DEF FlushFails, WriteSkipMedium, WriteSkipFails, WriteSkipEnds,
         WriteSeekMedium, WriteSeekFails, outVars
<1> QED
  BY <1>1, <1>2, <1>3, <1>4, <1>5, <1>6 DEF OutNext, OutContinue, OutOver

\* opj_stream_write_data returns all it was given or a failure, and a failure
\* exactly when a function of the user has failed: no byte is lost silently.
\* The offset and the medium stay where the calls put them.
THEOREM WriteCorrect == OutSpec => []WriteReturnsCount
<1>1. OutInit => IInv /\ Progress /\ Inside
  BY InitInv, ProgressInit, StreamAssumption DEF OutInit, Inside
<1>2. IInv /\ Progress /\ Inside /\ [OutNext]_outVars
        => IInv' /\ Progress' /\ Inside'
  <2> SUFFICES ASSUME IInv, Progress, Inside, [OutNext]_outVars
                 PROVE  IInv' /\ Progress' /\ Inside'
    OBVIOUS
  <2>1. CASE UNCHANGED outVars
    BY <2>1, NextInv, CurInside DEF outVars, Progress
  <2>2. CASE ~UNCHANGED outVars
    BY <2>2, NextInv, CurInside, ProgressBegin, ProgressContinue DEF OutNext, OutOver
  <2> QED
    BY <2>1, <2>2
<1>3. IInv /\ Progress /\ Inside => WriteReturnsCount
  <2> SUFFICES ASSUME IInv, Progress, Inside PROVE WriteReturnsCount
    OBVIOUS
  <2>1. /\ wpos \in Int /\ winbuf \in Nat /\ wcur \in Nat /\ winbuf <= BufferSize
        /\ 0 <= wpos /\ wpos + winbuf <= MediumLen /\ wcur <= BufferSize
    BY DEF IInv, Shape, Progress, Inside
  <2>2. wpos \in 0..(MediumLen + BufferSize) /\ winbuf \in 0..BufferSize /\ wcur \in 0..BufferSize
    BY <2>1, StreamAssumption
  <2>3. wpc = "flush" => wcur + winbuf <= BufferSize
    BY DEF IInv, Shape
  <2>4. OutTypeOK
    BY <2>2, <2>3 DEF OutTypeOK, IInv, Shape, Within, Progress
  <2> QED
    BY <2>4 DEF WriteReturnsCount, Progress
<1> QED
  BY <1>1, <1>2, <1>3, PTL DEF OutSpec
=============================================================================
