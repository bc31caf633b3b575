------------------------------- MODULE ByteSink -------------------------------
(***************************************************************************)
(* What an output stream promises to the codecs (cio.h): the bytes that    *)
(* have been written stand where the position was, whether they are still  *)
(* in the buffer or on the medium.  A byte is identified with the call     *)
(* that wrote it.                                                          *)
(***************************************************************************)
EXTENDS Integers

CONSTANT Length   \* of the medium

VARIABLES
  at,     \* opj_stream_tell
  data,   \* per position, the call that wrote it last; 0 where none has
  call,   \* the number of the current call
  failed  \* one of the user's functions has failed: nothing is promised

vars == <<at, data, call, failed>>
Places == 0..(Length - 1)
Lost == [p \in Places |-> 0]

Init == at = 0 /\ data = Lost /\ call = 0 /\ failed = FALSE

\* A call writes k bytes, all that it is asked to write or a part of it.
Write(k) ==
  /\ ~failed
  /\ call' \in {call, call + 1}
  /\ data' = [p \in Places |-> IF at <= p /\ p < at + k THEN call' ELSE data[p]]
  /\ at' = at + k
  /\ UNCHANGED failed

\* Skipping and seeking leave the bytes alone.
Move(to) ==
  /\ ~failed
  /\ call' \in {call, call + 1} /\ at' = to
  /\ UNCHANGED <<data, failed>>

Fail ==
  /\ failed' = TRUE /\ data' = Lost
  /\ call' \in {call, call + 1} /\ at' \in 0..Length

Next ==
  \/ \E k \in 0..(Length - at) : Write(k)
  \/ \E to \in 0..Length : Move(to)
  \/ Fail

Spec == Init /\ [][Next]_vars
=============================================================================
