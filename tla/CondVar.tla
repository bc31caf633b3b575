------------------------------- MODULE CondVar -------------------------------
(***************************************************************************)
(* What the thread pool expects of mutexes and condition variables: to     *)
(* wait is to give up the mutex and fall asleep in one step, a signal      *)
(* wakes one thread that sleeps, if there is one, and a thread that has    *)
(* been woken takes the mutex again before it goes on.  A condition is     *)
(* always used with the same mutex.                                        *)
(***************************************************************************)
CONSTANTS Threads, Conds, Mutexes, MutexOf, None

VARIABLES
  owner,      \* the thread that holds each mutex, or None
  waiting,    \* the threads that sleep on each condition
  woken       \* the condition a thread has been woken from, or None

vars == <<owner, waiting, woken>>

Awake(t) == woken[t] = None /\ \A c \in Conds : t \notin waiting[c]

Init ==
  /\ owner = [m \in Mutexes |-> None]
  /\ waiting = [c \in Conds |-> {}]
  /\ woken = [t \in Threads |-> None]

Lock(t, m) ==
  /\ Awake(t) /\ owner[m] = None
  /\ owner' = [owner EXCEPT ![m] = t]
  /\ UNCHANGED <<waiting, woken>>

Unlock(t, m) ==
  /\ Awake(t) /\ owner[m] = t
  /\ owner' = [owner EXCEPT ![m] = None]
  /\ UNCHANGED <<waiting, woken>>

Wait(t, c) ==
  /\ Awake(t) /\ owner[MutexOf[c]] = t
  /\ owner' = [owner EXCEPT ![MutexOf[c]] = None]
  /\ waiting' = [waiting EXCEPT ![c] = @ \cup {t}]
  /\ UNCHANGED woken

(* A signal to a condition nobody sleeps on is a stutter. *)
Signal(t, c) ==
  /\ Awake(t) /\ owner[MutexOf[c]] = t
  /\ \E s \in waiting[c] :
       /\ waiting' = [waiting EXCEPT ![c] = @ \ {s}]
       /\ woken' = [woken EXCEPT ![s] = c]
  /\ UNCHANGED owner

Return(t) ==
  /\ woken[t] # None /\ owner[MutexOf[woken[t]]] = None
  /\ owner' = [owner EXCEPT ![MutexOf[woken[t]]] = t]
  /\ woken' = [woken EXCEPT ![t] = None]
  /\ UNCHANGED waiting

Next ==
  \E t \in Threads :
    \/ \E m \in Mutexes : Lock(t, m) \/ Unlock(t, m)
    \/ \E c \in Conds : Wait(t, c) \/ Signal(t, c)
    \/ Return(t)

Spec == Init /\ [][Next]_vars
==============================================================================
