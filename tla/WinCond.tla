------------------------------- MODULE WinCond -------------------------------
(***************************************************************************)
(* The condition variables of the Windows build (thread.c), put together   *)
(* from events: a thread has one event for all the conditions it ever      *)
(* waits on, kept under a TLS key that the first opj_cond_create           *)
(* allocates; a condition has a list of the events to set, under a mutex   *)
(* of its own.  An event that has let a thread pass is unset again.        *)
(*                                                                         *)
(* As the pool does, a thread signals a condition while it holds the mutex *)
(* that goes with it, and a condition is destroyed when nobody is in a     *)
(* call on it.                                                             *)
(***************************************************************************)
EXTENDS Integers, Sequences, FiniteSets

CONSTANTS Threads, Conds, Mutexes, MutexOf, None

(* None is nobody and nothing: no thread, no condition, no state of an event. *)
ASSUME WinCondAssumption ==
  /\ IsFiniteSet(Threads)
  /\ MutexOf \in [Conds -> Mutexes]
  /\ None \notin Threads /\ None \notin Conds /\ None \notin {"unset", "set", "closed"}

VARIABLES
  owner,            \* the critical section of each mutex: who is in it
  cond,             \* each condition: "none", "ready", "destroyed"
  internal_mutex,   \* of each condition: who holds it
  waiter_list,      \* of each condition: the events to set, as <<thread, key>>
  keys,             \* how often TlsAlloc has been called
  TLSKey,           \* the key, 0 if there is none (yet)
  TLSKeyInit,
  inTLSLockedSection,   \* the thread that has set it, or None
  event,            \* the event under each key of each thread: None, "unset", "set", "closed"
  pc,               \* where each thread is
  on                \* the condition its call is about

vars == <<owner, cond, internal_mutex, waiter_list, keys, TLSKey, TLSKeyInit,
          inTLSLockedSection, event, pc, on>>

mutexVars == <<owner>>
keyVars == <<keys, TLSKey, TLSKeyInit, inTLSLockedSection>>
listVars == <<cond, internal_mutex, waiter_list>>

Init ==
  /\ owner = [m \in Mutexes |-> None]
  /\ cond = [c \in Conds |-> "none"]
  /\ internal_mutex = [c \in Conds |-> None]
  /\ waiter_list = [c \in Conds |-> <<>>]
  /\ keys = 0 /\ TLSKey = 0 /\ TLSKeyInit = FALSE /\ inTLSLockedSection = None
  /\ event = [t \in Threads |-> [k \in 1..Cardinality(Threads) |-> None]]
  /\ pc = [t \in Threads |-> "out"]
  /\ on = [t \in Threads |-> None]

At(t, here, there) == pc[t] = here /\ pc' = [pc EXCEPT ![t] = there]

------------------------------------------------------------------------------
(* opj_cond_create, and the end of a thread in opj_thread_callback_adapter, *)
(* spin on inTLSLockedSection around what they do with the key.            *)
CreateCond(t, c) ==
  /\ cond[c] = "none" /\ \A s \in Threads : on[s] # c
  /\ At(t, "out", "create")
  /\ on' = [on EXCEPT ![t] = c]
  /\ UNCHANGED <<mutexVars, keyVars, listVars, event>>

EndThread(t) ==
  /\ \A m \in Mutexes : owner[m] # t
  /\ At(t, "out", "end")
  /\ UNCHANGED <<mutexVars, keyVars, listVars, event, on>>

(* A plausible bug: the section is entered without looking whether it is free. *)
EnterTLSSection_NotExclusive(t) ==
  /\ inTLSLockedSection' = t
  /\ At(t, "create", "key") \/ At(t, "end", "close")
  /\ UNCHANGED <<mutexVars, keys, TLSKey, TLSKeyInit, listVars, event, on>>

EnterTLSSection(t) ==
  /\ inTLSLockedSection = None
  /\ inTLSLockedSection' = t
  /\ At(t, "create", "key") \/ At(t, "end", "close")
  /\ UNCHANGED <<mutexVars, keys, TLSKey, TLSKeyInit, listVars, event, on>>

AllocKey(t) ==
  /\ ~TLSKeyInit /\ keys < Cardinality(Threads)
  /\ At(t, "key", "init")
  /\ keys' = keys + 1
  /\ TLSKey' \in {0, keys'}      \* TlsAlloc may run out of keys
  /\ UNCHANGED <<mutexVars, TLSKeyInit, inTLSLockedSection, listVars, event, on>>

InitKey(t) ==
  /\ \/ At(t, "init", "leave")
     \/ TLSKeyInit /\ At(t, "key", "leave")
  /\ TLSKeyInit' = TRUE
  /\ UNCHANGED <<mutexVars, keys, TLSKey, inTLSLockedSection, listVars, event, on>>

(* Without a key, or a mutex, there is no condition. *)
LeaveTLSSection(t) ==
  /\ At(t, "leave", "out")
  /\ inTLSLockedSection' = None
  /\ \/ UNCHANGED cond
     \/ TLSKey # 0 /\ cond' = [cond EXCEPT ![on[t]] = "ready"]
  /\ on' = [on EXCEPT ![t] = None]
  /\ UNCHANGED <<mutexVars, keys, TLSKey, TLSKeyInit, internal_mutex, waiter_list, event>>

(* A thread that ends looks for its event in the section, and closes it    *)
(* when it has left that.                                                  *)
HasEvent(t) == TLSKeyInit /\ TLSKey # 0 /\ event[t][TLSKey] # None
FindEvent(t) ==
  /\ At(t, "close", IF HasEvent(t) THEN "closing" ELSE "ended")
  /\ inTLSLockedSection' = None
  /\ UNCHANGED <<mutexVars, keys, TLSKey, TLSKeyInit, listVars, event, on>>

CloseEvent(t) ==
  /\ At(t, "closing", "ended")
  /\ event' = [event EXCEPT ![t][TLSKey] = "closed"]
  /\ UNCHANGED <<mutexVars, keyVars, listVars, on>>

------------------------------------------------------------------------------
Lock(t, m) ==
  /\ pc[t] = "out" /\ owner[m] = None
  /\ owner' = [owner EXCEPT ![m] = t]
  /\ UNCHANGED <<keyVars, listVars, event, pc, on>>

Unlock(t, m) ==
  /\ pc[t] = "out" /\ owner[m] = t
  /\ owner' = [owner EXCEPT ![m] = None]
  /\ UNCHANGED <<keyVars, listVars, event, pc, on>>

(* opj_cond_wait: the thread's event is made by its first wait. *)
BeginWait(t, c) ==
  /\ cond[c] = "ready" /\ owner[MutexOf[c]] = t
  /\ At(t, "out", "insert")
  /\ on' = [on EXCEPT ![t] = c]
  /\ event' = IF event[t][TLSKey] = None THEN [event EXCEPT ![t][TLSKey] = "unset"] ELSE event
  /\ UNCHANGED <<mutexVars, keyVars, listVars>>

InsertWaiter(t) ==
  /\ At(t, "insert", "release")
  /\ internal_mutex[on[t]] = None
  /\ waiter_list' = [waiter_list EXCEPT ![on[t]] = << <<t, TLSKey>> >> \o @]
  /\ UNCHANGED <<mutexVars, keyVars, cond, internal_mutex, event, on>>

ReleaseMutex(t) ==
  /\ At(t, "release", "block")
  /\ owner' = [owner EXCEPT ![MutexOf[on[t]]] = None]
  /\ UNCHANGED <<keyVars, listVars, event, on>>

(* A plausible bug: an event that must be reset by hand, and is not. *)
PassEvent_ManualReset(t) ==
  /\ At(t, "block", "relock")
  /\ event[t][TLSKey] = "set"
  /\ UNCHANGED <<mutexVars, keyVars, listVars, event, on>>

(* WaitForSingleObject: the event resets by itself. *)
PassEvent(t) ==
  /\ At(t, "block", "relock")
  /\ event[t][TLSKey] = "set"
  /\ event' = [event EXCEPT ![t][TLSKey] = "unset"]
  /\ UNCHANGED <<mutexVars, keyVars, listVars, on>>

Relock(t) ==
  /\ At(t, "relock", "out")
  /\ owner[MutexOf[on[t]]] = None
  /\ owner' = [owner EXCEPT ![MutexOf[on[t]]] = t]
  /\ on' = [on EXCEPT ![t] = None]
  /\ UNCHANGED <<keyVars, listVars, event>>

(* opj_cond_signal: the first event of the list is set, and taken off it.  *)
SetFirstEvent(t, c) ==
  /\ cond[c] = "ready" /\ owner[MutexOf[c]] = t
  /\ internal_mutex[c] = None /\ waiter_list[c] # <<>>
  /\ At(t, "out", "remove")
  /\ LET first == Head(waiter_list[c])
     IN event' = [event EXCEPT ![first[1]][first[2]] = "set"]
  /\ internal_mutex' = [internal_mutex EXCEPT ![c] = t]
  /\ on' = [on EXCEPT ![t] = c]
  /\ UNCHANGED <<mutexVars, keyVars, cond, waiter_list>>

UnlinkFirst(t) ==
  /\ At(t, "remove", "out")
  /\ waiter_list' = [waiter_list EXCEPT ![on[t]] = Tail(@)]
  /\ internal_mutex' = [internal_mutex EXCEPT ![on[t]] = None]
  /\ on' = [on EXCEPT ![t] = None]
  /\ UNCHANGED <<mutexVars, keyVars, cond, event>>

DestroyCond(t, c) ==
  /\ pc[t] = "out" /\ cond[c] = "ready" /\ \A s \in Threads : on[s] # c
  /\ cond' = [cond EXCEPT ![c] = "destroyed"]
  /\ UNCHANGED <<mutexVars, keyVars, internal_mutex, waiter_list, event, pc, on>>

Next ==
  \E t \in Threads :
    \/ EndThread(t) \/ EnterTLSSection(t) \/ AllocKey(t) \/ InitKey(t)
    \/ LeaveTLSSection(t) \/ FindEvent(t) \/ CloseEvent(t)
    \/ InsertWaiter(t) \/ ReleaseMutex(t) \/ PassEvent(t) \/ Relock(t) \/ UnlinkFirst(t)
    \/ \E m \in Mutexes : Lock(t, m) \/ Unlock(t, m)
    \/ \E c \in Conds : CreateCond(t, c) \/ BeginWait(t, c) \/ SetFirstEvent(t, c)
                          \/ DestroyCond(t, c)

Spec == Init /\ [][Next]_vars

------------------------------------------------------------------------------
(* A thread sleeps from when it is on the list, with its mutex as good as  *)
(* free, until its event is set.                                           *)
Set(t) == TLSKey # 0 /\ event[t][TLSKey] = "set"
Asleep(c) == {t \in Threads : on[t] = c /\ pc[t] \in {"release", "block"} /\ ~Set(t)}

Abstract == INSTANCE CondVar WITH
  owner <- [m \in Mutexes |->
             IF \E t \in Threads : pc[t] = "release" /\ MutexOf[on[t]] = m
             THEN None ELSE owner[m]],
  waiting <- [c \in Conds |-> Asleep(c)],
  woken <- [t \in Threads |->
             IF pc[t] = "relock" \/ (pc[t] \in {"release", "block"} /\ Set(t))
             THEN on[t] ELSE None]

(* Each step of the Windows code is one of CondVar, or none. *)
StepOfCondVar == [Abstract!Next]_(Abstract!vars)
ImplementsCondVar == Abstract!Init /\ [][StepOfCondVar]_vars

(* A signal finds every thread that sleeps, and no other: the list of a    *)
(* condition holds the events of the sleepers, each once, but for one that *)
(* is being taken off it.  An event is set for the wait the thread is in,  *)
(* never for a later one.  The key is allocated once.  No event that has   *)
(* been closed will be set, and a destroyed condition has no waiters left. *)
WaitersWoken ==
  /\ \A c \in Conds : LET list == waiter_list[c] IN
       /\ \A i, k \in DOMAIN list : list[i] = list[k] => i = k
       /\ {list[i] : i \in DOMAIN list} =
            {<<t, TLSKey>> : t \in Asleep(c)}
              \cup (IF internal_mutex[c] = None THEN {} ELSE {list[1]})
       /\ \A i \in DOMAIN list : event[list[i][1]][list[i][2]] \notin {None, "closed"}
       /\ cond[c] = "destroyed" => list = <<>>
  /\ \A t \in Threads : Set(t) => pc[t] \in {"release", "block"}
  /\ keys <= 1
==============================================================================
