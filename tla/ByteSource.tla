------------------------------ MODULE ByteSource ------------------------------
(***************************************************************************)
(* What an input stream promises to the codecs (cio.h): a position in a    *)
(* run of bytes, moved by reading, skipping and seeking.  A byte is        *)
(* identified with its place in the run.                                   *)
(***************************************************************************)
EXTENDS Integers, Sequences

CONSTANT Length   \* of the run of bytes

VARIABLES
  at,     \* opj_stream_tell
  ended,  \* the end has been met: nothing is read or skipped until a seek
  bytes   \* what the last read has given so far

vars == <<at, ended, bytes>>

\* The k bytes at position a.
Run(a, k) == [i \in 1..k |-> a + i - 1]

Init == at = 0 /\ ended = FALSE /\ bytes = <<>>

\* A read gives the bytes at the position, at once or piece by piece.
Read(k) ==
  /\ ended => k = 0
  /\ at' = at + k /\ bytes' = Run(at, k)
  /\ UNCHANGED ended

ReadOn(k) ==
  /\ ~ended
  /\ at' = at + k /\ bytes' = bytes \o Run(at, k)
  /\ UNCHANGED ended

\* A skip moves forward, and not at all past the end.
Skip(k) ==
  /\ ended => k = 0
  /\ at' = at + k /\ bytes' = <<>>
  /\ ended' \in {ended, TRUE}

\* Reading meets the end, or the user's function fails.
End == ended' = TRUE /\ UNCHANGED <<at, bytes>>

Seek(to) == at' = to /\ ended' = FALSE /\ bytes' = <<>>
SeekFails == ended' = TRUE /\ bytes' = <<>> /\ UNCHANGED at

Next ==
  \/ \E k \in 0..(Length - at) : Read(k) \/ ReadOn(k) \/ Skip(k)
  \/ \E to \in 0..Length : Seek(to)
  \/ End \/ SeekFails

Spec == Init /\ [][Next]_vars
=============================================================================
