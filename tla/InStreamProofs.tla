--------------------------- MODULE InStreamProofs ---------------------------
(***************************************************************************)
(* The input stream keeps its buffer, its offset and the medium together,  *)
(* whatever the user's functions answer, for every size of the buffer and  *)
(* of the medium.                                                          *)
(***************************************************************************)
EXTENDS InStream, SequenceTheorems, TLAPS

\* What the positions of the stream are, and how the buffer is left while the
\* medium is read or skipped.
Shape ==
  /\ pos \in Int /\ off \in Int /\ ended \in BOOLEAN
  /\ cur \in Nat /\ inbuf \in Nat /\ cur + inbuf <= BufferSize
  /\ stored \in [0..(BufferSize - 1) -> Int]
  /\ size \in Nat /\ count \in Nat
  /\ pc \in {"idle", "read", "skip"}
  /\ pc = "read" => cur = 0 /\ inbuf = 0 /\ ~ended
  /\ pc = "skip" => inbuf = 0 /\ ~ended

IInv == Shape /\ Positioned

LEMMA InitInv == Init => IInv
<1> SUFFICES ASSUME Init PROVE IInv
  OBVIOUS
<1>1. stored \in [0..(BufferSize - 1) -> Int]
  BY DEF Init, Garbage
<1>2. Shape
  BY <1>1, StreamAssumption DEF Init, Shape
<1> QED
  BY <1>2 DEF Init, IInv, Positioned

\* The buffer without its first k bytes.
LEMMA Rest ==
  ASSUME IInv, NEW k \in 0..inbuf
  PROVE  \A i \in 0..(inbuf - k - 1) : stored[(cur + k) + i] = (off + k) + i
<1> SUFFICES ASSUME NEW i \in 0..(inbuf - k - 1)
             PROVE  stored[(cur + k) + i] = (off + k) + i
  OBVIOUS
<1>1. k + i \in 0..(inbuf - 1) /\ cur + (k + i) = (cur + k) + i /\ off + (k + i) = (off + k) + i
  BY DEF IInv, Shape
<1>2. stored[cur + (k + i)] = off + (k + i)
  BY <1>1 DEF IInv, Positioned
<1> QED
  BY <1>1, <1>2

\* A call that finds what it needs in the buffer, or that begins with it.
LEMMA BeginInv == IInv /\ Begin => IInv'
<1> SUFFICES ASSUME IInv, Begin PROVE IInv'
  OBVIOUS
<1> USE StreamAssumption DEF IInv, Shape, Positioned, Call, Return
<1>1. ASSUME NEW k \in 0..MaxSize, ReadBuffered(k) PROVE IInv'
  <2>1. k \in 0..inbuf
    BY <1>1 DEF ReadBuffered
  <2>2. \A i \in 0..(inbuf' - 1) : stored'[cur' + i] = off' + i
    BY <1>1, <2>1, Rest DEF ReadBuffered
  <2> QED
    BY <1>1, <2>1, <2>2 DEF ReadBuffered
<1>2. ASSUME NEW k \in 0..MaxSize, ReadEnded(k) PROVE IInv'
  BY <1>2 DEF ReadEnded
<1>3. ASSUME NEW k \in 0..MaxSize, ReadBegins(k) PROVE IInv'
  BY <1>3 DEF ReadBegins
<1>4. ASSUME NEW k \in 0..MaxSize, SkipBuffered(k) PROVE IInv'
  <2>1. k \in 0..inbuf
    BY <1>4 DEF SkipBuffered
  <2>2. \A i \in 0..(inbuf' - 1) : stored'[cur' + i] = off' + i
    BY <1>4, <2>1, Rest DEF SkipBuffered
  <2> QED
    BY <1>4, <2>1, <2>2 DEF SkipBuffered
<1>5. ASSUME NEW k \in 0..MaxSize, SkipEnded(k) PROVE IInv'
  BY <1>5 DEF SkipEnded
<1>6. ASSUME NEW k \in 0..MaxSize, SkipBegins(k) PROVE IInv'
  BY <1>6 DEF SkipBegins
<1>7. ASSUME NEW to \in 0..FileLen, Seek(to) PROVE IInv'
  <2>1. /\ pos' = to /\ off' = to /\ cur' = 0 /\ inbuf' = 0
        /\ ended' \in BOOLEAN /\ ~ended'
        /\ pc' = "idle" /\ stored' = stored /\ size' = size /\ count' = count
    BY <1>7 DEF Seek, SeekTo
  <2>2. to \in Int
    OBVIOUS
  <2>3. Shape'
    BY <2>1, <2>2
  <2>4. Positioned'
    BY <2>1, <2>2
  <2> QED
    BY <2>3, <2>4
<1>8. ASSUME NEW to \in 0..FileLen, SeekFails(to) PROVE IInv'
  BY <1>8 DEF SeekFails
<1> QED
  BY <1>1, <1>2, <1>3, <1>4, <1>5, <1>6, <1>7, <1>8 DEF Begin

\* What the user's function answers is not more than was asked for.
LEMMA AnswersBound ==
  ASSUME NEW k \in Nat, NEW b \in Int, NEW a \in Answers(k, b)
  PROVE  a \in Nat /\ 0 < a /\ a <= k
  BY DEF Answers

\* A step on the medium.
LEMMA ContinueInv == IInv /\ Continue => IInv'
<1> SUFFICES ASSUME IInv, Continue PROVE IInv'
  OBVIOUS
<1> USE StreamAssumption DEF IInv, Shape, Positioned, Return
<1>1. CASE ReadChunk
  <2>1. PICK k \in Answers(BufferSize, FileLen - pos) :
          LET take == IF k < size THEN k ELSE size
          IN  /\ stored' = Fill(k) /\ pos' = pos + k
              /\ off' = off + take
              /\ inbuf' = k - take /\ count' = count + take /\ size' = size - take
              /\ IF k < size THEN cur' = 0 /\ pc' = pc
                             ELSE cur' = cur + take /\ pc' = "idle"
    BY <1>1 DEF ReadChunk
  <2>2. k \in Nat /\ 0 < k /\ k <= BufferSize
    BY <2>1, AnswersBound
  <2>3. pc = "read" /\ size < BufferSize /\ ended' = ended
    BY <1>1 DEF ReadChunk
  <2>4. stored' \in [0..(BufferSize - 1) -> Int]
    BY <2>1, <2>2 DEF Fill
  <2>5. \A i \in 0..(k - 1) : stored'[i] = pos + i
    BY <2>1, <2>2 DEF Fill
  <2>6. CASE k < size
    BY <2>1, <2>2, <2>3, <2>4, <2>6
  <2>7. CASE size <= k
    <3>1. cur' = size /\ inbuf' = k - size /\ off' = off + size /\ pos' = pos + k
            /\ pos = off /\ pc' = "idle" /\ size' = 0 /\ count' = count + size
      BY <2>1, <2>2, <2>3, <2>7
    <3>2. \A i \in 0..(inbuf' - 1) : stored'[cur' + i] = off' + i
      BY <2>5, <3>1, <2>2, <2>7
    <3> QED
      BY <2>2, <2>3, <2>4, <2>7, <3>1, <3>2
  <2> QED
    BY <2>2, <2>6, <2>7
<1>2. CASE ReadDirect
  BY <1>2, AnswersBound DEF ReadDirect
<1>3. CASE ReadEnds
  BY <1>3 DEF ReadEnds
<1>4. CASE SkipPastEnd
  BY <1>4 DEF SkipPastEnd, SeekTo
<1>5. CASE SkipMedium
  BY <1>5, AnswersBound DEF SkipMedium
<1>6. CASE SkipFails
  BY <1>6 DEF SkipFails
<1> QED
  BY <1>1, <1>2, <1>3, <1>4, <1>5, <1>6 DEF Continue

LEMMA NextInv == IInv /\ [Next]_vars => IInv'
<1> SUFFICES ASSUME IInv, [Next]_vars PROVE IInv'
  OBVIOUS
<1>1. CASE UNCHANGED vars
  BY <1>1 DEF vars, IInv, Shape, Positioned
<1>2. CASE Over
  BY <1>2 DEF Over, vars, IInv, Shape, Positioned
<1> QED
  BY <1>1, <1>2, BeginInv, ContinueInv DEF Next

LEMMA Invariance == Spec => []IInv
  BY InitInv, NextInv, PTL DEF Spec

\* After any calls, whatever the user's functions answered, the buffer holds the
\* bytes of the medium at m_byte_offset and the medium gives what follows.
THEOREM PositionCorrect == Spec => []Positioned
<1>1. IInv => Positioned
  BY DEF IInv
<1> QED
  BY <1>1, Invariance, PTL

-----------------------------------------------------------------------------
(***************************************************************************)
(* The stream implements ByteSource, if the application has told its       *)
(* length.                                                                 *)
(***************************************************************************)
\* Nothing leads past the end, and a skip copies nothing.
Within ==
  /\ 0 <= off /\ off + inbuf <= FileLen /\ 0 <= pos /\ pos <= FileLen
  /\ pc = "skip" => off + count <= FileLen /\ dest = <<>>

LEMMA WithinBegin ==
  ASSUME UserLength <= FileLen, IInv, Within, Begin
  PROVE  Within'
<1> USE StreamAssumption DEF IInv, Shape, Positioned, Within, Call, Return
<1>1. ASSUME NEW k \in 0..MaxSize, ReadBuffered(k) PROVE Within'
  BY <1>1 DEF ReadBuffered
<1>2. ASSUME NEW k \in 0..MaxSize, ReadEnded(k) PROVE Within'
  BY <1>2 DEF ReadEnded
<1>3. ASSUME NEW k \in 0..MaxSize, ReadBegins(k) PROVE Within'
  BY <1>3 DEF ReadBegins
<1>4. ASSUME NEW k \in 0..MaxSize, SkipBuffered(k) PROVE Within'
  BY <1>4 DEF SkipBuffered
<1>5. ASSUME NEW k \in 0..MaxSize, SkipEnded(k) PROVE Within'
  BY <1>5 DEF SkipEnded
<1>6. ASSUME NEW k \in 0..MaxSize, SkipBegins(k) PROVE Within'
  BY <1>6 DEF SkipBegins
<1>7. ASSUME NEW to \in 0..FileLen, Seek(to) PROVE Within'
  BY <1>7 DEF Seek, SeekTo
<1>8. ASSUME NEW to \in 0..FileLen, SeekFails(to) PROVE Within'
  BY <1>8 DEF SeekFails
<1> QED
  BY <1>1, <1>2, <1>3, <1>4, <1>5, <1>6, <1>7, <1>8 DEF Begin

\* Nor does the user's function give more than there is.
LEMMA AnswersWithin ==
  ASSUME NEW k \in Nat, NEW b \in Int, NEW a \in Answers(k, b)
  PROVE  a <= b
  BY DEF Answers

LEMMA WithinContinue ==
  ASSUME UserLength <= FileLen, IInv, Within, Continue
  PROVE  Within'
<1> USE StreamAssumption DEF IInv, Shape, Positioned, Within, Return
<1>1. CASE ReadChunk
  <2>1. PICK k \in Answers(BufferSize, FileLen - pos) :
          LET take == IF k < size THEN k ELSE size
          IN  /\ pos' = pos + k /\ off' = off + take /\ inbuf' = k - take
    BY <1>1 DEF ReadChunk
  <2>2. k \in Nat /\ k <= FileLen - pos
    BY <2>1, AnswersBound, AnswersWithin
  <2>3. pc = "read" /\ pc' \in {"read", "idle"}
    BY <1>1 DEF ReadChunk
  <2> QED
    BY <2>1, <2>2, <2>3
<1>2. CASE ReadDirect
  <2>1. PICK k \in Answers(size, FileLen - pos) :
          pos' = pos + k /\ off' = off + k
    BY <1>2 DEF ReadDirect
  <2>2. k \in Nat /\ k <= FileLen - pos
    BY <2>1, AnswersBound, AnswersWithin
  <2>3. pc = "read" /\ pc' \in {"read", "idle"} /\ inbuf' = 0
    BY <1>2 DEF ReadDirect
  <2> QED
    BY <2>1, <2>2, <2>3
<1>3. CASE ReadEnds
  BY <1>3 DEF ReadEnds
<1>4. CASE SkipPastEnd
  BY <1>4 DEF SkipPastEnd, SeekTo
<1>5. CASE SkipMedium
  <2>1. PICK k \in Answers(size, size) :
          /\ pos' = pos + k /\ count' = count + k
          /\ IF k < size THEN pc' = pc /\ off' = off
                         ELSE pc' = "idle" /\ off' = off + count + k
    BY <1>5 DEF SkipMedium
  <2>2. k \in Nat /\ k <= size
    BY <2>1, AnswersBound
  <2>3. pc = "skip" /\ inbuf' = inbuf /\ dest' = dest /\ off + count + size <= FileLen
    BY <1>5 DEF SkipMedium, PastEnd
  <2> QED
    BY <2>1, <2>2, <2>3
<1>6. CASE SkipFails
  BY <1>6 DEF SkipFails
<1> QED
  BY <1>1, <1>2, <1>3, <1>4, <1>5, <1>6 DEF Continue

\* What is copied from the buffer is what the run of bytes has at the offset.
LEMMA BufferedRun ==
  ASSUME IInv, NEW k \in 0..inbuf
  PROVE  Buffered(k) = Source!Run(off, k)
<1>1. ASSUME NEW i \in 1..k PROVE stored[cur + i - 1] = off + i - 1
  <2>1. i - 1 \in 0..(inbuf - 1) /\ cur + (i - 1) = cur + i - 1 /\ off + (i - 1) = off + i - 1
    BY DEF IInv, Shape
  <2> QED
    BY <2>1 DEF IInv, Positioned
<1> QED
  BY <1>1 DEF Buffered, Source!Run

LEMMA BeginSimulates ==
  ASSUME UserLength = FileLen, IInv, Within, Begin
  PROVE  Source!Next
<1> USE StreamAssumption DEF IInv, Shape, Positioned, Within
<1>1. ASSUME NEW k \in 0..MaxSize, ReadBuffered(k) PROVE Source!Next
  <2>1. k \in 0..inbuf /\ k \in 0..(FileLen - off) /\ (ended => k = 0)
    BY <1>1 DEF ReadBuffered
  <2>2. Source!Read(k)
    BY <1>1, <2>1, BufferedRun DEF ReadBuffered, Source!Read
  <2> QED
    BY <2>1, <2>2 DEF Source!Next
<1>2. ASSUME NEW k \in 0..MaxSize, ReadEnded(k) PROVE Source!Next
  <2>1. inbuf = 0 /\ 0 \in 0..(FileLen - off)
    BY <1>2 DEF ReadEnded
  <2>2. Source!Read(0)
    BY <1>2, <2>1, BufferedRun DEF ReadEnded, Source!Read
  <2> QED
    BY <2>1, <2>2 DEF Source!Next
<1>3. ASSUME NEW k \in 0..MaxSize, ReadBegins(k) PROVE Source!Next
  <2>1. inbuf \in 0..inbuf /\ inbuf \in 0..(FileLen - off)
    OBVIOUS
  <2>2. Source!Read(inbuf)
    BY <1>3, <2>1, BufferedRun DEF ReadBegins, Source!Read
  <2> QED
    BY <2>1, <2>2 DEF Source!Next
<1>4. ASSUME NEW k \in 0..MaxSize, SkipBuffered(k) PROVE Source!Next
  <2>1. k \in 0..inbuf /\ k \in 0..(FileLen - off) /\ (ended => k = 0)
    BY <1>4 DEF SkipBuffered
  <2>2. Source!Skip(k)
    BY <1>4, <2>1 DEF SkipBuffered, Source!Skip
  <2> QED
    BY <2>1, <2>2 DEF Source!Next
<1>5. ASSUME NEW k \in 0..MaxSize, SkipEnded(k) PROVE Source!Next
  <2>1. inbuf = 0 /\ 0 \in 0..(FileLen - off)
    BY <1>5 DEF SkipEnded
  <2>2. Source!Skip(0)
    BY <1>5, <2>1 DEF SkipEnded, Source!Skip
  <2> QED
    BY <2>1, <2>2 DEF Source!Next
<1>6. ASSUME NEW k \in 0..MaxSize, SkipBegins(k) PROVE Source!Next
  <2>1. 0 \in 0..(FileLen - off)
    OBVIOUS
  <2>2. Source!Skip(0)
    BY <1>6 DEF SkipBegins, Source!Skip
  <2> QED
    BY <2>1, <2>2 DEF Source!Next
<1>7. ASSUME NEW to \in 0..FileLen, Seek(to) PROVE Source!Next
  BY <1>7 DEF Seek, SeekTo, Source!Seek, Source!Next
<1>8. ASSUME NEW to \in 0..FileLen, SeekFails(to) PROVE Source!Next
  BY <1>8 DEF SeekFails, Source!SeekFails, Source!Next
<1> QED
  BY <1>1, <1>2, <1>3, <1>4, <1>5, <1>6, <1>7, <1>8 DEF Begin

LEMMA ContinueSimulates ==
  ASSUME UserLength = FileLen, IInv, Within, Continue
  PROVE  Source!Next \/ UNCHANGED Source!vars
<1> USE StreamAssumption DEF IInv, Shape, Positioned, Within
<1>1. CASE ReadChunk
  <2>1. PICK k \in Answers(BufferSize, FileLen - pos) :
          LET take == IF k < size THEN k ELSE size
          IN  /\ stored' = Fill(k)
              /\ dest' = dest \o [i \in 1..take |-> stored'[cur + i - 1]]
              /\ off' = off + take
    BY <1>1 DEF ReadChunk
  <2> DEFINE take == IF k < size THEN k ELSE size
  <2>2. k \in Nat /\ k <= FileLen - pos /\ k <= BufferSize
    BY <2>1, AnswersBound, AnswersWithin
  <2>3. pc = "read" /\ cur = 0 /\ pos = off /\ ~ended /\ ended' = ended
    BY <1>1 DEF ReadChunk
  <2>4. take \in 0..(FileLen - off) /\ take <= k
    BY <2>2, <2>3
  <2>5. ASSUME NEW i \in 1..take PROVE stored'[cur + i - 1] = off + i - 1
    <3>1. i - 1 \in 0..(BufferSize - 1) /\ i - 1 < k /\ cur + i - 1 = i - 1
      BY <2>2, <2>3, <2>4
    <3>2. stored'[i - 1] = pos + (i - 1)
      BY <2>1, <3>1 DEF Fill
    <3> QED
      BY <3>1, <3>2, <2>3
  <2>6. [i \in 1..take |-> stored'[cur + i - 1]] = Source!Run(off, take)
    BY <2>5 DEF Source!Run
  <2>7. Source!ReadOn(take)
    BY <2>1, <2>3, <2>6 DEF Source!ReadOn
  <2> QED
    BY <2>4, <2>7 DEF Source!Next
<1>2. CASE ReadDirect
  <2>1. PICK k \in Answers(size, FileLen - pos) :
          dest' = dest \o FromMedium(k) /\ off' = off + k
    BY <1>2 DEF ReadDirect
  <2>2. k \in Nat /\ k <= FileLen - pos
    BY <2>1, AnswersBound, AnswersWithin
  <2>3. pc = "read" /\ pos = off /\ ~ended /\ ended' = ended
    BY <1>2 DEF ReadDirect
  <2>4. FromMedium(k) = Source!Run(off, k)
    BY <2>3 DEF FromMedium, Source!Run
  <2>5. Source!ReadOn(k)
    BY <2>1, <2>3, <2>4 DEF Source!ReadOn
  <2>6. k \in 0..(FileLen - off)
    BY <2>2, <2>3
  <2> QED
    BY <2>5, <2>6 DEF Source!Next
<1>3. CASE ReadEnds
  BY <1>3 DEF ReadEnds, Source!End, Source!Next
<1>4. CASE SkipPastEnd
  <2>1. pc = "skip" /\ dest = <<>> /\ dest' = <<>> /\ ended' = TRUE /\ ~ended
    BY <1>4 DEF SkipPastEnd
  <2>2. off' = FileLen \/ off' = off + count
    BY <1>4 DEF SkipPastEnd, SeekTo
  <2>3. PICK k \in 0..(FileLen - off) : off' = off + k
    <3>1. CASE off' = FileLen
      <4>1. FileLen - off \in 0..(FileLen - off) /\ off' = off + (FileLen - off)
        BY <3>1
      <4> QED
        BY <4>1
    <3>2. CASE off' = off + count
      BY <2>1, <3>2
    <3> QED
      BY <2>2, <3>1, <3>2
  <2>4. Source!Skip(k)
    BY <2>1, <2>3 DEF Source!Skip
  <2> QED
    BY <2>4 DEF Source!Next
<1>5. CASE SkipMedium
  <2>1. PICK k \in Answers(size, size) :
          IF k < size THEN off' = off ELSE off' = off + count + k
    BY <1>5 DEF SkipMedium
  <2>2. k \in Nat /\ k <= size
    BY <2>1, AnswersBound
  <2>3. /\ pc = "skip" /\ dest = <<>> /\ dest' = dest /\ ended' = ended /\ ~ended
        /\ off + count + size <= FileLen
    BY <1>5 DEF SkipMedium, PastEnd
  <2>4. CASE off' = off
    BY <2>3, <2>4 DEF Source!vars
  <2>5. CASE off' = off + count + k
    <3>1. count + k \in 0..(FileLen - off) /\ off' = off + (count + k)
      BY <2>2, <2>3, <2>5
    <3>2. Source!Skip(count + k)
      BY <2>3, <3>1 DEF Source!Skip
    <3> QED
      BY <3>1, <3>2 DEF Source!Next
  <2> QED
    BY <2>1, <2>4, <2>5
<1>6. CASE SkipFails
  <2>1. /\ pc = "skip" /\ dest = <<>> /\ dest' = dest /\ ended' = TRUE /\ ~ended
        /\ off' = off + count
    BY <1>6 DEF SkipFails
  <2>2. count \in 0..(FileLen - off)
    BY <2>1
  <2>3. Source!Skip(count)
    BY <2>1 DEF Source!Skip
  <2> QED
    BY <2>2, <2>3 DEF Source!Next
<1> QED
  BY <1>1, <1>2, <1>3, <1>4, <1>5, <1>6 DEF Continue

\* What the codecs read, skip and seek in is a run of bytes with a position, for
\* a medium and a buffer of any size and functions that fail or answer short,
\* provided that the application has told the length of the medium.
THEOREM Refinement ==
  ASSUME UserLength = FileLen
  PROVE  Spec => ImplementsByteSource
<1>1. Init => Within
  BY StreamAssumption DEF Init, Within
<1>2. IInv /\ Within /\ [Next]_vars => Within'
  <2> SUFFICES ASSUME IInv, Within, [Next]_vars PROVE Within'
    OBVIOUS
  <2>1. CASE UNCHANGED vars
    BY <2>1 DEF vars, Within
  <2>2. CASE Over
    BY <2>2 DEF Over, vars, Within
  <2> QED
    BY <2>1, <2>2, WithinBegin, WithinContinue, StreamAssumption DEF Next
<1>3. Init => Source!Init
  BY DEF Init, Source!Init
<1>4. IInv /\ Within /\ [Next]_vars => [Source!Next]_Source!vars
  <2> SUFFICES ASSUME IInv, Within, [Next]_vars PROVE [Source!Next]_Source!vars
    OBVIOUS
  <2>1. CASE UNCHANGED vars
    BY <2>1 DEF vars, Source!vars
  <2>2. CASE Over
    BY <2>2 DEF Over, vars, Source!vars
  <2> QED
    BY <2>1, <2>2, BeginSimulates, ContinueSimulates DEF Next
<1> QED
  BY <1>1, <1>2, <1>3, <1>4, Invariance, PTL DEF Spec, ImplementsByteSource, Source!Spec

-----------------------------------------------------------------------------
(***************************************************************************)
(* What the calls return.                                                  *)
(***************************************************************************)
\* A function on 1..n is a sequence of n elements.
LEMMA SeqOfLen ==
  ASSUME NEW n \in Nat, NEW S, NEW f \in [1..n -> S]
  PROVE  f \in Seq(S) /\ Len(f) = n
<1>1. f \in Seq(S)
  BY SeqDef
<1>2. Len(f) \in Nat /\ DOMAIN f = 1..Len(f)
  BY <1>1, LenProperties
<1>3. 1..Len(f) = 1..n
  BY <1>2
<1> QED
  BY <1>1, <1>2, <1>3

\* Joining sequences.
LEMMA JoinLen ==
  ASSUME NEW S, NEW s \in Seq(S), NEW n \in Nat, NEW f \in [1..n -> S]
  PROVE  s \o f \in Seq(S) /\ Len(s \o f) = Len(s) + n
<1>1. f \in Seq(S) /\ Len(f) = n
  BY SeqOfLen
<1>2. s \o f \in Seq(S) /\ Len(s \o f) = Len(s) + Len(f)
  BY <1>1, ConcatProperties
<1> QED
  BY <1>1, <1>2

\* How far the call has come.
Progress ==
  /\ stored \in [0..(BufferSize - 1) -> Bytes \cup {Garbage}]
  /\ op \in {"none", "read", "skip", "seek"}
  /\ start \in 0..FileLen /\ asked \in Nat /\ calls \in 0..MaxCalls /\ ret \in Int
  /\ dest \in Seq(Bytes)
  /\ pc = "read" => /\ op = "read" /\ size > 0 /\ count + size = asked
                    /\ count = off - start /\ Len(dest) = count
  /\ pc = "skip" => op = "skip" /\ size > 0 /\ count + size = asked /\ off = start
  /\ ReadReturnsCount /\ SkipReturnsCount

LEMMA ProgressInit == Init => Progress
BY StreamAssumption, EmptySeq
   DEF Init, Progress, ReadReturnsCount, SkipReturnsCount

\* The bytes taken from the buffer.
LEMMA BufferedBytes ==
  ASSUME IInv, Within, NEW k \in 0..inbuf
  PROVE  Buffered(k) \in Seq(Bytes) /\ Len(Buffered(k)) = k
<1>1. ASSUME NEW i \in 1..k PROVE stored[cur + i - 1] \in Bytes
  <2>1. i - 1 \in 0..(inbuf - 1) /\ cur + (i - 1) = cur + i - 1
    BY DEF IInv, Shape
  <2>2. stored[cur + (i - 1)] = off + (i - 1)
    BY <2>1 DEF IInv, Positioned
  <2>3. off + (i - 1) \in Bytes
    BY <2>1, StreamAssumption DEF IInv, Shape, Within, Bytes
  <2> QED
    BY <2>1, <2>2, <2>3
<1>2. k \in Nat
  BY DEF IInv, Shape
<1>3. Buffered(k) \in [1..k -> Bytes]
  BY <1>1 DEF Buffered
<1> QED
  BY <1>2, <1>3, SeqOfLen

LEMMA ProgressBegin ==
  ASSUME UserLength <= FileLen, IInv, Within, Progress, Begin
  PROVE  Progress'
<1> DEFINE Kept == /\ UNCHANGED stored
                   /\ start' \in 0..FileLen /\ asked' \in Nat /\ calls' \in 0..MaxCalls
<1>1. ASSUME NEW o, NEW k \in Nat, Call(o, k), UNCHANGED stored
      PROVE  Kept /\ pc = "idle" /\ start' = off /\ asked' = k /\ op' = o
  BY <1>1, StreamAssumption DEF Call, Progress, Within, IInv, Shape
<1> USE DEF Return, CountOrEnd, NoResult
<1>2. ASSUME NEW k \in 0..MaxSize, ReadBuffered(k) PROVE Progress'
  <2>1. /\ Kept /\ start' = off /\ asked' = k /\ op' = "read" /\ pc' = "idle" /\ ret' = k
        /\ dest' = Buffered(k) /\ off' = off + k /\ k \in 0..inbuf
    BY <1>1, <1>2, StreamAssumption DEF ReadBuffered, IInv, Shape
  <2> QED
    BY <2>1, BufferedBytes DEF Progress, ReadReturnsCount, SkipReturnsCount, IInv, Shape
<1>3. ASSUME NEW k \in 0..MaxSize, ReadEnded(k) PROVE Progress'
  <2>1. inbuf = 0 /\ 0 < k /\ k \in Nat /\ 0 \in 0..inbuf /\ ended
    BY <1>3, StreamAssumption DEF ReadEnded, IInv, Shape, Positioned
  <2>2. /\ Kept /\ start' = off /\ asked' = k /\ op' = "read" /\ pc' = "idle" /\ ret' = -1
        /\ dest' = Buffered(0) /\ off' = off /\ ended'
    BY <1>1, <1>3, <2>1 DEF ReadEnded, IInv, Shape
  <2> QED
    BY <2>1, <2>2, BufferedBytes DEF Progress, ReadReturnsCount, SkipReturnsCount, IInv, Shape
<1>4. ASSUME NEW k \in 0..MaxSize, ReadBegins(k) PROVE Progress'
  <2>1. inbuf \in 0..inbuf /\ inbuf < k /\ k \in Nat
    BY <1>4, StreamAssumption DEF ReadBegins, IInv, Shape
  <2>2. /\ Kept /\ start' = off /\ asked' = k /\ op' = "read" /\ pc' = "read" /\ ret' = ret
        /\ dest' = Buffered(inbuf) /\ off' = off + inbuf
        /\ size' = k - inbuf /\ count' = inbuf
    BY <1>1, <1>4, <2>1 DEF ReadBegins
  <2> QED
    BY <2>1, <2>2, BufferedBytes DEF Progress, ReadReturnsCount, SkipReturnsCount, IInv, Shape
<1>5. ASSUME NEW k \in 0..MaxSize, SkipBuffered(k) PROVE Progress'
  <2>1. /\ Kept /\ start' = off /\ asked' = k /\ op' = "skip" /\ pc' = "idle" /\ ret' = k
        /\ dest' = <<>> /\ off' = off + k /\ k \in 0..inbuf
    BY <1>1, <1>5, StreamAssumption DEF SkipBuffered, IInv, Shape
  <2> QED
    BY <2>1, EmptySeq DEF Progress, ReadReturnsCount, SkipReturnsCount, IInv, Shape
<1>6. ASSUME NEW k \in 0..MaxSize, SkipEnded(k) PROVE Progress'
  <2>1. inbuf = 0 /\ 0 < k /\ k \in Nat
    BY <1>6, StreamAssumption DEF SkipEnded, IInv, Shape, Positioned
  <2>2. /\ Kept /\ start' = off /\ asked' = k /\ op' = "skip" /\ pc' = "idle" /\ ret' = -1
        /\ dest' = <<>> /\ off' = off
    BY <1>1, <1>6, <2>1 DEF SkipEnded, IInv, Shape
  <2> QED
    BY <2>1, <2>2, EmptySeq DEF Progress, ReadReturnsCount, SkipReturnsCount, IInv, Shape
<1>7. ASSUME NEW k \in 0..MaxSize, SkipBegins(k) PROVE Progress'
  <2>1. inbuf < k /\ k \in Nat
    BY <1>7, StreamAssumption DEF SkipBegins, IInv, Shape
  <2>2. /\ Kept /\ start' = off /\ asked' = k /\ op' = "skip" /\ pc' = "skip" /\ ret' = ret
        /\ dest' = <<>> /\ off' = off /\ size' = k - inbuf /\ count' = inbuf
    BY <1>1, <1>7, <2>1 DEF SkipBegins
  <2> QED
    BY <2>1, <2>2, EmptySeq DEF Progress, ReadReturnsCount, SkipReturnsCount, IInv, Shape
<1>8. ASSUME NEW to \in 0..FileLen, Seek(to) \/ SeekFails(to) PROVE Progress'
  <2>1. to \in Nat
    BY StreamAssumption
  <2>2. /\ Kept /\ op' = "seek" /\ pc' = "idle" /\ ret' \in {0, 1} /\ dest' = <<>>
    BY <1>1, <1>8, <2>1 DEF Seek, SeekFails
  <2> QED
    BY <2>2, EmptySeq DEF Progress, ReadReturnsCount, SkipReturnsCount
<1> QED
  BY <1>2, <1>3, <1>4, <1>5, <1>6, <1>7, <1>8 DEF Begin

\* A piece has been read: the call goes on, or it returns how much it has read.
LEMMA ProgressReads ==
  ASSUME IInv, Progress, pc = "read", NEW t \in Nat, 0 < t, t <= size,
         UNCHANGED <<op, start, asked, calls>>,
         stored' \in [0..(BufferSize - 1) -> Bytes \cup {Garbage}],
         dest' \in Seq(Bytes), Len(dest') = Len(dest) + t,
         off' = off + t, count' = count + t, size' = size - t,
         \/ t < size /\ pc' = "read" /\ ret' = ret
         \/ t = size /\ pc' = "idle" /\ ret' = count + t
  PROVE  Progress'
<1>1. /\ count = off - start /\ Len(dest) = count /\ count + size = asked /\ op = "read"
      /\ off \in Int /\ size \in Nat /\ count \in Nat /\ start \in Int /\ asked \in Int
  BY StreamAssumption DEF Progress, IInv, Shape
<1>2. /\ count + t = (off + t) - start /\ Len(dest) + t = count + t
      /\ (count + t) + (size - t) = asked /\ count + t \in Int
      /\ t < size => size - t > 0
      /\ t = size => off + t # start /\ (off + t) - start = asked
  BY <1>1
<1>3. start' = start /\ asked' = asked /\ op' = op
  OBVIOUS
<1>4. CASE pc' = "read"
  BY <1>1, <1>2, <1>3, <1>4 DEF Progress, ReadReturnsCount, SkipReturnsCount
<1>5. CASE pc' = "idle"
  <2>1. ret' = off' - start' /\ Len(dest') = off' - start' /\ off' # start' /\ off' - start' = asked'
    BY <1>1, <1>2, <1>3, <1>5, Zenon
  <2>2. ~(asked < asked)
    BY <1>1
  <2>3. ReadReturnsCount'
    BY <1>3, <2>1, <2>2, Zenon DEF ReadReturnsCount
  <2>4. SkipReturnsCount'
    BY <1>1, <1>3 DEF SkipReturnsCount
  <2>5. ret' \in Int
    BY <1>2, <1>5
  <2> QED
    BY <1>3, <1>5, <2>3, <2>4, <2>5 DEF Progress
<1> QED
  BY <1>4, <1>5

LEMMA ProgressContinue ==
  ASSUME UserLength <= FileLen, IInv, Within, Progress, Continue
  PROVE  Progress'
<1> DEFINE Kept == UNCHANGED <<op, start, asked, calls>>
<1> USE DEF Return, CountOrEnd, NoResult
<1>1. CASE ReadChunk
  <2>1. PICK k \in Answers(BufferSize, FileLen - pos) :
          LET take == IF k < size THEN k ELSE size
          IN  /\ stored' = Fill(k) /\ pos' = pos + k
              /\ dest' = dest \o [i \in 1..take |-> stored'[cur + i - 1]]
              /\ off' = off + take
              /\ count' = count + take /\ size' = size - take
              /\ IF k < size THEN pc' = pc /\ ret' = ret
                             ELSE pc' = "idle" /\ ret' = count + take
    BY <1>1 DEF ReadChunk
  <2> DEFINE take == IF k < size THEN k ELSE size
  <2>2. k \in Nat /\ 0 < k /\ k <= BufferSize /\ k <= FileLen - pos
    BY <2>1, AnswersBound, AnswersWithin, StreamAssumption DEF IInv, Shape
  <2>3. pc = "read" /\ Kept /\ size < BufferSize /\ cur = 0 /\ pos = off
    BY <1>1 DEF ReadChunk, IInv, Shape, Positioned
  <2>4. take \in Nat /\ take <= k /\ 0 < take
    BY <2>2, <2>3 DEF IInv, Shape, Progress
  <2>5. ASSUME NEW i \in 0..(k - 1)
        PROVE  i \in 0..(BufferSize - 1) /\ stored'[i] = pos + i /\ pos + i \in Bytes
    <3>1. i \in 0..(BufferSize - 1) /\ i < k
      BY <2>2, StreamAssumption
    <3>2. stored'[i] = pos + i
      BY <2>1, <3>1 DEF Fill
    <3>3. pos + i \in Bytes
      BY <2>2, <2>3, <3>1, StreamAssumption DEF IInv, Shape, Within, Bytes
    <3> QED
      BY <3>1, <3>2, <3>3
  <2>6. stored' \in [0..(BufferSize - 1) -> Bytes \cup {Garbage}]
    <3>1. \A i \in 0..(BufferSize - 1) : i < k => pos + i \in Bytes
      BY <2>2, <2>5, StreamAssumption
    <3> QED
      BY <2>1, <3>1 DEF Fill, Progress
  <2>7. [i \in 1..take |-> stored'[cur + i - 1]] \in [1..take -> Bytes]
    <3>1. ASSUME NEW i \in 1..take PROVE stored'[cur + i - 1] \in Bytes
      <4>1. i - 1 \in 0..(k - 1) /\ cur + i - 1 = i - 1
        BY <2>2, <2>3, <2>4
      <4> QED
        BY <2>5, <4>1
    <3> QED
      BY <3>1
  <2> HIDE DEF take
  <2>8. /\ dest' = dest \o [i \in 1..take |-> stored'[cur + i - 1]]
        /\ off' = off + take /\ count' = count + take /\ size' = size - take
        /\ \/ k < size /\ take = k /\ pc' = "read" /\ ret' = ret
           \/ size <= k /\ take = size /\ pc' = "idle" /\ ret' = count + take
    BY <2>1, <2>2, <2>3 DEF take, IInv, Shape
  <2>9. dest' \in Seq(Bytes) /\ Len(dest') = Len(dest) + take
    BY <2>4, <2>7, <2>8, JoinLen DEF Progress
  <2> QED
    BY <2>3, <2>4, <2>6, <2>8, <2>9, ProgressReads DEF IInv, Shape
<1>2. CASE ReadDirect
  <2>1. PICK k \in Answers(size, FileLen - pos) :
          /\ dest' = dest \o FromMedium(k)
          /\ off' = off + k /\ count' = count + k /\ size' = size - k
          /\ IF k < size THEN pc' = pc /\ ret' = ret ELSE pc' = "idle" /\ ret' = count + k
    BY <1>2 DEF ReadDirect
  <2>2. k \in Nat /\ 0 < k /\ k <= size /\ k <= FileLen - pos
    BY <2>1, AnswersBound, AnswersWithin, StreamAssumption DEF IInv, Shape
  <2>3. pc = "read" /\ Kept /\ UNCHANGED stored /\ pos = off
    BY <1>2 DEF ReadDirect, IInv, Shape, Positioned
  <2>4. FromMedium(k) \in [1..k -> Bytes]
    BY <2>2, <2>3, StreamAssumption DEF FromMedium, Bytes, IInv, Shape, Within
  <2>5. dest' \in Seq(Bytes) /\ Len(dest') = Len(dest) + k
    BY <2>1, <2>2, <2>4, JoinLen DEF Progress
  <2>6. stored' \in [0..(BufferSize - 1) -> Bytes \cup {Garbage}]
    BY <2>3 DEF Progress
  <2>7. \/ k < size /\ pc' = "read" /\ ret' = ret
        \/ k = size /\ pc' = "idle" /\ ret' = count + k
    BY <2>1, <2>2, <2>3 DEF IInv, Shape
  <2> QED
    BY <2>1, <2>2, <2>3, <2>5, <2>6, <2>7, ProgressReads
<1>3. CASE ReadEnds
  <2>1. /\ pc = "read" /\ pc' = "idle" /\ ended' /\ ret' = CountOrEnd(count)
        /\ Kept /\ UNCHANGED <<stored, off, dest>>
    BY <1>3 DEF ReadEnds
  <2> QED
    BY <2>1 DEF Progress, ReadReturnsCount, SkipReturnsCount, IInv, Shape
<1>4. CASE SkipPastEnd
  <2>1. /\ pc = "skip" /\ pc' = "idle" /\ off + count + size > UserLength
        /\ ret' = (IF UserLength = off + count THEN NoResult ELSE UserLength - (off + count))
        /\ Kept /\ UNCHANGED <<stored, dest>>
    BY <1>4 DEF SkipPastEnd, PastEnd
  <2>2. start + asked > UserLength /\ ret' \in Int
    BY <2>1, StreamAssumption DEF Progress, IInv, Shape
  <2> QED
    BY <2>1, <2>2, StreamAssumption DEF Progress, ReadReturnsCount, SkipReturnsCount
<1>5. CASE SkipMedium
  <2>1. PICK k \in Answers(size, size) :
          /\ size' = size - k /\ count' = count + k
          /\ IF k < size THEN pc' = pc /\ ret' = ret /\ off' = off
                         ELSE pc' = "idle" /\ ret' = count + k /\ off' = off + count + k
    BY <1>5 DEF SkipMedium
  <2>2. k \in Nat /\ 0 < k /\ k <= size
    BY <2>1, AnswersBound DEF IInv, Shape
  <2>3. pc = "skip" /\ Kept /\ UNCHANGED <<stored, dest>>
    BY <1>5 DEF SkipMedium
  <2>4. CASE k < size
    BY <2>1, <2>2, <2>3, <2>4
       DEF Progress, ReadReturnsCount, SkipReturnsCount, IInv, Shape
  <2>5. CASE k = size
    BY <2>1, <2>2, <2>3, <2>5
       DEF Progress, ReadReturnsCount, SkipReturnsCount, IInv, Shape
  <2> QED
    BY <2>2, <2>4, <2>5 DEF IInv, Shape
<1>6. CASE SkipFails
  <2>1. /\ pc = "skip" /\ pc' = "idle" /\ off' = off + count /\ ret' = CountOrEnd(count)
        /\ Kept /\ UNCHANGED <<stored, dest>>
    BY <1>6 DEF SkipFails
  <2> QED
    BY <2>1 DEF Progress, ReadReturnsCount, SkipReturnsCount, IInv, Shape
<1> QED
  BY <1>1, <1>2, <1>3, <1>4, <1>5, <1>6 DEF Continue

\* What a read or a skip returns is by how much it has moved, and a read has
\* copied that many bytes of the medium, for a length told that is not beyond
\* the medium (none told included) and functions that fail or answer short.
THEOREM CountsCorrect ==
  ASSUME UserLength <= FileLen
  PROVE  Spec => []CountsReturned
<1>1. Init => IInv /\ Within /\ Progress
  BY InitInv, ProgressInit, StreamAssumption DEF Init, Within
<1>2. IInv /\ Within /\ Progress /\ [Next]_vars => IInv' /\ Within' /\ Progress'
  <2> SUFFICES ASSUME IInv, Within, Progress, [Next]_vars PROVE IInv' /\ Within' /\ Progress'
    OBVIOUS
  <2>1. CASE UNCHANGED vars
    BY <2>1, NextInv
       DEF vars, Within, Progress, ReadReturnsCount, SkipReturnsCount
  <2>2. CASE ~UNCHANGED vars
    BY <2>2, NextInv, WithinBegin, WithinContinue, ProgressBegin, ProgressContinue
       DEF Next, Over
  <2> QED
    BY <2>1, <2>2
<1>3. IInv /\ Within /\ Progress => CountsReturned
  <2> SUFFICES ASSUME IInv, Within, Progress PROVE CountsReturned
    OBVIOUS
  <2>1. pos \in 0..FileLen /\ off \in 0..FileLen
    BY StreamAssumption DEF IInv, Shape, Positioned, Within
  <2>2. cur \in 0..BufferSize /\ inbuf \in 0..BufferSize
    BY StreamAssumption DEF IInv, Shape
  <2>3. TypeOK
    BY <2>1, <2>2 DEF TypeOK, IInv, Shape, Progress
  <2> QED
    BY <2>3 DEF CountsReturned, Progress
<1> QED
  BY <1>1, <1>2, <1>3, PTL DEF Spec
=============================================================================
