----------------------------- MODULE StreamSizes -----------------------------
(***************************************************************************)
(* The sizes of a stream of cio.c, in either direction, and of the medium  *)
(* behind it, and what the user's functions do.                            *)
(***************************************************************************)
EXTENDS Integers

CONSTANTS
  FileLen,     \* bytes of the medium that is read
  UserLength,  \* what opj_stream_set_user_data_length said of it; 0 if nothing
  MediumLen,   \* bound on the positions of the medium that is written
  Capacity,    \* what that one can hold
  BufferSize,
  MaxSize,     \* bound on the size of a request
  MaxCalls,    \* bound on the calls
  Faults       \* which of the user's functions may fail: "read", "write", "skip",
               \* "seek"; "short" if they may also do less than they are asked for;
               \* "full" if the write function stops at the capacity, as fwrite does

ASSUME StreamAssumption ==
  /\ FileLen \in Nat /\ UserLength \in Nat /\ MediumLen \in Nat /\ Capacity \in Nat
  /\ BufferSize \in Nat \ {0} /\ MaxSize \in Nat /\ MaxCalls \in Nat
==============================================================================
