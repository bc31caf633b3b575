---------------------------- MODULE WinCondProofs ----------------------------
(***************************************************************************)
(* The condition variables of the Windows build lose no wake-up and set no *)
(* event twice, for any number of threads, conditions and mutexes, and are *)
(* condition variables.                                                    *)
(***************************************************************************)
EXTENDS WinCond, SequenceTheorems, FiniteSetTheorems, TLAPS

States == {"out", "create", "end", "key", "init", "leave", "close", "closing", "ended",
           "insert", "release", "block", "relock", "remove"}
Creating == {"create", "key", "init", "leave"}
Using == {"insert", "release", "block", "relock", "remove"}
Sleeping == {"release", "block"}

Types ==
  /\ owner \in [Mutexes -> Threads \cup {None}]
  /\ cond \in [Conds -> {"none", "ready", "destroyed"}]
  /\ internal_mutex \in [Conds -> Threads \cup {None}]
  /\ waiter_list \in [Conds -> Seq(Threads \X {1})]
  /\ event \in [Threads -> [1..Cardinality(Threads) -> {None, "unset", "set", "closed"}]]
  /\ pc \in [Threads -> States] /\ on \in [Threads -> Conds \cup {None}]
  /\ inTLSLockedSection \in Threads \cup {None} /\ TLSKeyInit \in BOOLEAN
  /\ keys \in {0, 1} /\ TLSKey \in {0, keys} /\ TLSKey <= Cardinality(Threads)

\* One thread at a time is in the section, so that the key is allocated once, and
\* only with a key are there conditions and events.
KeyInv ==
  /\ \A t \in Threads :
       /\ inTLSLockedSection = t <=> pc[t] \in {"key", "init", "leave", "close"}
       /\ pc[t] = "init" => keys = 1 /\ ~TLSKeyInit
       /\ pc[t] = "leave" => TLSKeyInit
       /\ pc[t] = "key" /\ ~TLSKeyInit => keys = 0
       /\ pc[t] = "closing" => TLSKey = 1
  /\ inTLSLockedSection = None /\ ~TLSKeyInit => keys = 0
  /\ \A t \in Threads : pc[t] = "close" /\ ~TLSKeyInit => keys = 0
  /\ \A c \in Conds : cond[c] # "none" => TLSKey = 1
  /\ TLSKey = 0 => \A t \in Threads : \A k \in 1..Cardinality(Threads) : event[t][k] = None

\* What the condition of a call is, and whose its mutexes are.
CallInv ==
  /\ \A t \in Threads :
       /\ pc[t] \in Creating => on[t] \in Conds /\ cond[on[t]] = "none"
       /\ pc[t] \in Using => on[t] \in Conds /\ cond[on[t]] = "ready"
       /\ pc[t] \notin Creating \cup Using => on[t] = None
       /\ pc[t] \in {"insert", "release", "remove"} => owner[MutexOf[on[t]]] = t
  /\ \A s, t \in Threads : pc[s] \in Creating /\ pc[t] \in Creating /\ on[s] = on[t] => s = t
  /\ \A c \in Conds : \A t \in Threads :
       internal_mutex[c] = t <=> pc[t] = "remove" /\ on[t] = c

\* The event of a thread, once there is a key.
EventInv ==
  TLSKey = 1 => \A t \in Threads :
    /\ event[t][1] = "set" => pc[t] \in Sleeping
    /\ event[t][1] = "closed" => pc[t] = "ended"
    /\ pc[t] \in {"insert", "release", "block", "relock"} => event[t][1] # None

\* The list of a condition: who sleeps on it, each once.  While a signal is taking
\* the first of the list off it, that thread has been woken, and cannot go on.
Sleepers(c) == {<<t, 1>> : t \in Asleep(c)}
Elements(s) == {s[i] : i \in DOMAIN s}
NoTwice(s) == \A i, k \in DOMAIN s : s[i] = s[k] => i = k
BeingWoken(c) ==
  /\ waiter_list[c] # <<>>
  /\ LET f == waiter_list[c][1][1]
     IN  f \in Threads /\ on[f] = c /\ pc[f] \in {"release", "block", "relock"} /\ f \notin Asleep(c)

ListInv ==
  \A c \in Conds :
    /\ NoTwice(waiter_list[c])
    /\ Elements(waiter_list[c]) =
         Sleepers(c) \cup (IF internal_mutex[c] = None THEN {} ELSE {waiter_list[c][1]})
    /\ internal_mutex[c] # None => BeingWoken(c)

IInv == Types /\ KeyInv /\ CallInv /\ EventInv /\ ListInv

\* What a signal sets comes from the list, and a waiter goes to its front.
LEMMA Prepended ==
  ASSUME NEW S, NEW s \in Seq(S), NEW e \in S
  PROVE  /\ <<e>> \o s \in Seq(S) /\ <<e>> \o s # <<>> /\ (<<e>> \o s)[1] = e
         /\ Elements(<<e>> \o s) = {e} \cup Elements(s)
         /\ NoTwice(s) /\ e \notin Elements(s) => NoTwice(<<e>> \o s)
<1> DEFINE r == <<e>> \o s
<1>1. <<e>> \in Seq(S) /\ Len(<<e>>) = 1 /\ <<e>>[1] = e
  OBVIOUS
<1>2. /\ r \in Seq(S) /\ Len(r) = 1 + Len(s) /\ Len(s) \in Nat
      /\ DOMAIN r = 1..(1 + Len(s)) /\ DOMAIN s = 1..Len(s)
      /\ \A i \in 1..(1 + Len(s)) : r[i] = IF i <= 1 THEN <<e>>[i] ELSE s[i - 1]
  BY <1>1, ConcatProperties, LenProperties
<1> HIDE DEF r
<1>3. r[1] = e /\ \A i \in 2..(1 + Len(s)) : r[i] = s[i - 1]
  BY <1>1, <1>2
<1>4. r # <<>>
  BY <1>2, EmptySeq
<1>5. \A i \in DOMAIN s : s[i] = r[i + 1] /\ i + 1 \in DOMAIN r
  BY <1>2, <1>3
<1>6. Elements(r) = {e} \cup Elements(s)
  <2>1. ASSUME NEW i \in DOMAIN r PROVE r[i] \in {e} \cup Elements(s)
    <3>1. CASE i = 1
      BY <1>3, <3>1
    <3>2. CASE i # 1
      BY <1>2, <1>3, <3>2 DEF Elements
    <3> QED
      BY <3>1, <3>2
  <2>2. e \in Elements(r)
    BY <1>2, <1>3 DEF Elements
  <2>3. ASSUME NEW i \in DOMAIN s PROVE s[i] \in Elements(r)
    BY <1>5 DEF Elements
  <2> QED
    BY <2>1, <2>2, <2>3 DEF Elements
<1>7. ASSUME NoTwice(s), e \notin Elements(s) PROVE NoTwice(r)
  <2> SUFFICES ASSUME NEW i \in DOMAIN r, NEW k \in DOMAIN r, r[i] = r[k] PROVE i = k
    BY DEF NoTwice
  <2>1. \A j \in DOMAIN r : j # 1 => r[j] # e /\ j - 1 \in DOMAIN s /\ r[j] = s[j - 1]
    BY <1>2, <1>3, <1>7 DEF Elements
  <2>2. CASE i = 1 \/ k = 1
    BY <1>3, <2>1, <2>2
  <2>3. CASE i # 1 /\ k # 1
    <3>1. i - 1 = k - 1
      BY <1>7, <2>1, <2>3 DEF NoTwice
    <3> QED
      BY <1>2, <3>1
  <2> QED
    BY <2>2, <2>3
<1> QED
  BY <1>2, <1>3, <1>4, <1>6, <1>7 DEF r

LEMMA FirstRemoved ==
  ASSUME NEW S, NEW s \in Seq(S), s # <<>>, NoTwice(s)
  PROVE  /\ Head(s) = s[1] /\ s[1] \in S /\ s[1] \in Elements(s)
         /\ Tail(s) \in Seq(S) /\ NoTwice(Tail(s))
         /\ Elements(Tail(s)) = Elements(s) \ {s[1]}
<1> DEFINE r == Tail(s)
<1>1. /\ r \in Seq(S) /\ Len(r) = Len(s) - 1 /\ Len(s) \in Nat \ {0}
      /\ DOMAIN r = 1..(Len(s) - 1) /\ DOMAIN s = 1..Len(s)
      /\ \A i \in 1..(Len(s) - 1) : r[i] = s[i + 1]
  BY HeadTailProperties, LenProperties, EmptySeq
<1>2. Head(s) = s[1]
  BY HeadTailProperties
<1> HIDE DEF r
<1>3. \A i \in DOMAIN r : i + 1 \in DOMAIN s /\ r[i] = s[i + 1] /\ s[i + 1] # s[1]
  BY <1>1 DEF NoTwice
<1>4. NoTwice(r)
  <2> SUFFICES ASSUME NEW i \in DOMAIN r, NEW k \in DOMAIN r, r[i] = r[k] PROVE i = k
    BY DEF NoTwice
  <2>1. i + 1 = k + 1
    BY <1>3 DEF NoTwice
  <2> QED
    BY <1>1, <2>1
<1>5. 1 \in DOMAIN s /\ s[1] \in Elements(s) /\ s[1] \in S
  BY <1>1, ElementOfSeq DEF Elements
<1>6. ASSUME NEW i \in DOMAIN s, s[i] # s[1] PROVE s[i] \in Elements(r)
  <2>1. i # 1 /\ i - 1 \in DOMAIN r /\ r[i - 1] = s[i]
    BY <1>1, <1>6
  <2> QED
    BY <2>1 DEF Elements
<1>7. Elements(r) = Elements(s) \ {s[1]}
  BY <1>3, <1>6 DEF Elements
<1> QED
  BY <1>1, <1>2, <1>4, <1>5, <1>7 DEF r

LEMMA InitInv == Init => IInv
<1> SUFFICES ASSUME Init PROVE IInv
  OBVIOUS
<1> USE WinCondAssumption DEF Init
<1>1. Cardinality(Threads) \in Nat
  BY FS_CardinalityType
<1>2. Types
  <2>1. waiter_list \in [Conds -> Seq(Threads \X {1})]
    BY EmptySeq
  <2>2. /\ event \in [Threads -> [1..Cardinality(Threads) -> {None, "unset", "set", "closed"}]]
        /\ inTLSLockedSection \in Threads \cup {None} /\ TLSKeyInit \in BOOLEAN
    OBVIOUS
  <2> QED
    BY <1>1, <2>1, <2>2 DEF Types, States
<1>3. KeyInv /\ CallInv /\ EventInv
  BY DEF KeyInv, CallInv, EventInv, Creating, Using
<1>4. \A c \in Conds : waiter_list[c] = <<>> /\ internal_mutex[c] = None /\ Asleep(c) = {}
  BY DEF Asleep, Set
<1>5. ListInv
  BY <1>4 DEF ListInv, NoTwice, Elements, Sleepers
<1> QED
  BY <1>2, <1>3, <1>5 DEF IInv

\* A thread that is neither waiting nor about to wait does something else: nobody
\* falls asleep, and nobody wakes.
LEMMA ListKept ==
  ASSUME IInv, NEW t \in Threads, UNCHANGED <<waiter_list, internal_mutex>>,
         pc[t] \notin {"release", "block", "relock"}, pc'[t] \notin {"release", "block", "relock"},
         \A s \in Threads \ {t} : pc'[s] = pc[s] /\ on'[s] = on[s] /\ event'[s] = event[s],
         TLSKey' = TLSKey \/ \A s \in Threads : pc[s] \notin Sleeping
  PROVE  ListInv'
<1>1. ASSUME NEW c \in Conds PROVE Asleep(c)' = Asleep(c)
  BY DEF Asleep, Set, Sleeping
<1>2. ASSUME NEW c \in Conds, internal_mutex[c] # None PROVE BeingWoken(c)'
  BY <1>1, <1>2 DEF BeingWoken, IInv, ListInv
<1> QED
  BY <1>1, <1>2 DEF IInv, ListInv, Sleepers

------------------------------------------------------------------------------
(* What threads do about the key: create a condition, or end.              *)
KeyStep(t) ==
  \/ EndThread(t) \/ EnterTLSSection(t) \/ AllocKey(t) \/ InitKey(t)
  \/ LeaveTLSSection(t) \/ FindEvent(t) \/ CloseEvent(t)
  \/ \E c \in Conds : CreateCond(t, c)

LEMMA KeyStepInv ==
  ASSUME IInv, NEW t \in Threads, KeyStep(t)
  PROVE  IInv'
<1> USE WinCondAssumption DEF At, mutexVars, keyVars, listVars
<1>0. Cardinality(Threads) \in Nat
  BY FS_CardinalityType
<1>1. ASSUME NEW c \in Conds, CreateCond(t, c) PROVE IInv'
  <2> USE <1>1 DEF CreateCond
  <2>1. Types'
    BY DEF IInv, Types, States
  <2>2. KeyInv'
    BY DEF IInv, Types, KeyInv
  <2>3. CallInv'
    BY DEF IInv, Types, CallInv, Creating, Using
  <2>4. EventInv'
    BY DEF IInv, Types, EventInv, Sleeping
  <2>5. ListInv'
    BY ListKept DEF IInv, Types
  <2> QED
    BY <2>1, <2>2, <2>3, <2>4, <2>5 DEF IInv
<1>2. CASE EndThread(t)
  <2> USE <1>2 DEF EndThread
  <2>1. Types'
    BY DEF IInv, Types, States
  <2>2. KeyInv'
    BY DEF IInv, Types, KeyInv
  <2>3. CallInv'
    BY DEF IInv, Types, CallInv, Creating, Using
  <2>4. EventInv'
    BY DEF IInv, Types, EventInv, Sleeping
  <2>5. ListInv'
    BY ListKept DEF IInv, Types
  <2> QED
    BY <2>1, <2>2, <2>3, <2>4, <2>5 DEF IInv
<1>3. CASE EnterTLSSection(t)
  <2> USE <1>3 DEF EnterTLSSection
  <2>1. Types'
    BY DEF IInv, Types, States
  <2>2. KeyInv'
    BY DEF IInv, Types, KeyInv
  <2>3. CallInv'
    <3>1. CASE At(t, "create", "key")
      BY <3>1 DEF IInv, Types, CallInv, Creating, Using
    <3>2. CASE At(t, "end", "close")
      BY <3>2 DEF IInv, Types, CallInv, Creating, Using
    <3> QED
      BY <3>1, <3>2
  <2>4. EventInv'
    BY DEF IInv, Types, EventInv, Sleeping
  <2>5. ListInv'
    BY ListKept DEF IInv, Types
  <2> QED
    BY <2>1, <2>2, <2>3, <2>4, <2>5 DEF IInv
<1>4. CASE AllocKey(t)
  <2> USE <1>4 DEF AllocKey
  <2>0. /\ keys = 0 /\ TLSKey = 0 /\ \A s \in Threads : pc[s] \notin Using
        /\ \A s \in Threads : event[s][1] = None
    BY <1>0 DEF IInv, Types, KeyInv, CallInv
  <2>1. Types'
    BY <1>0, <2>0 DEF IInv, Types, States
  <2>2. KeyInv'
    BY <2>0 DEF IInv, Types, KeyInv
  <2>3. CallInv'
    BY DEF IInv, Types, CallInv, Creating, Using
  <2>4. EventInv'
    BY <2>0 DEF IInv, Types, EventInv, Sleeping, Using
  <2>5. ListInv'
    BY <2>0, ListKept DEF IInv, Types, Sleeping, Using
  <2> QED
    BY <2>1, <2>2, <2>3, <2>4, <2>5 DEF IInv
<1>5. CASE InitKey(t)
  <2> USE <1>5 DEF InitKey
  <2>1. Types'
    BY DEF IInv, Types, States
  <2>2. KeyInv'
    BY DEF IInv, Types, KeyInv
  <2>3. CallInv'
    <3>1. CASE At(t, "init", "leave")
      BY <3>1 DEF IInv, Types, CallInv, Creating, Using
    <3>2. CASE At(t, "key", "leave")
      BY <3>2 DEF IInv, Types, CallInv, Creating, Using
    <3> QED
      BY <3>1, <3>2
  <2>4. EventInv'
    BY DEF IInv, Types, EventInv, Sleeping
  <2>5. ListInv'
    BY ListKept DEF IInv, Types
  <2> QED
    BY <2>1, <2>2, <2>3, <2>4, <2>5 DEF IInv
<1>6. CASE LeaveTLSSection(t)
  <2> USE <1>6 DEF LeaveTLSSection
  <2>1. Types'
    BY DEF IInv, Types, States
  <2>2. KeyInv'
    BY DEF IInv, Types, KeyInv
  <2>3. CallInv'
    <3>1. CASE UNCHANGED cond
      BY <3>1 DEF IInv, Types, CallInv, Creating, Using
    <3>2. CASE TLSKey # 0 /\ cond' = [cond EXCEPT ![on[t]] = "ready"]
      <4>1. on[t] \in Conds /\ cond[on[t]] = "none" /\ pc[t] \in Creating
        BY DEF IInv, CallInv, Creating
      <4>2. \A s \in Threads : s # t /\ pc[s] \in Creating \cup Using => on[s] # on[t]
        BY <4>1 DEF IInv, CallInv, Creating, Using
      <4>3. \A s \in Threads : s # t => pc'[s] = pc[s] /\ on'[s] = on[s]
        BY DEF IInv, Types
      <4>4. pc'[t] = "out" /\ on'[t] = None
        BY DEF IInv, Types
      <4>5. \A c \in Conds : c # on[t] => cond'[c] = cond[c]
        BY <3>2 DEF IInv, Types
      <4> QED
        BY <4>1, <4>2, <4>3, <4>4, <4>5 DEF IInv, CallInv, Creating, Using
    <3> QED
      BY <3>1, <3>2
  <2>4. EventInv'
    BY DEF IInv, Types, EventInv, Sleeping
  <2>5. ListInv'
    BY ListKept DEF IInv, Types
  <2> QED
    BY <2>1, <2>2, <2>3, <2>4, <2>5 DEF IInv
<1>7. CASE FindEvent(t)
  <2> USE <1>7 DEF FindEvent
  <2>1. Types'
    BY DEF IInv, Types, States
  <2>2. KeyInv'
    BY DEF IInv, Types, KeyInv, HasEvent
  <2>3. CallInv'
    BY DEF IInv, Types, CallInv, Creating, Using
  <2>4. EventInv'
    BY DEF IInv, Types, EventInv, Sleeping
  <2>5. ListInv'
    BY ListKept DEF IInv, Types
  <2> QED
    BY <2>1, <2>2, <2>3, <2>4, <2>5 DEF IInv
<1>8. CASE CloseEvent(t)
  <2> USE <1>8 DEF CloseEvent
  <2>1. Types'
    BY DEF IInv, Types, States
  <2>2. KeyInv'
    BY DEF IInv, Types, KeyInv
  <2>3. CallInv'
    BY DEF IInv, Types, CallInv, Creating, Using
  <2>4. EventInv'
    BY DEF IInv, Types, EventInv, Sleeping
  <2>5. ListInv'
    BY ListKept DEF IInv, Types
  <2> QED
    BY <2>1, <2>2, <2>3, <2>4, <2>5 DEF IInv
<1> QED
  BY <1>1, <1>2, <1>3, <1>4, <1>5, <1>6, <1>7, <1>8 DEF KeyStep

------------------------------------------------------------------------------
(* What threads do about a mutex, and the end of a condition.              *)
LEMMA LockInv ==
  ASSUME IInv, NEW t \in Threads, NEW m \in Mutexes, Lock(t, m) \/ Unlock(t, m)
  PROVE  IInv'
<1> USE WinCondAssumption DEF Lock, Unlock, keyVars, listVars
<1>1. /\ owner' \in [Mutexes -> Threads \cup {None}] /\ \A n \in Mutexes \ {m} : owner'[n] = owner[n]
      /\ owner[m] \in {t, None} /\ pc[t] = "out" /\ UNCHANGED <<keyVars, listVars, event, pc, on>>
  <2>1. CASE Lock(t, m)
    BY <2>1 DEF IInv, Types
  <2>2. CASE Unlock(t, m)
    BY <2>2 DEF IInv, Types
  <2> QED
    BY <2>1, <2>2
<1>2. Types' /\ KeyInv' /\ EventInv'
  BY <1>1 DEF IInv, Types, KeyInv, EventInv
<1>3. CallInv'
  <2>1. ASSUME NEW s \in Threads, pc[s] \in {"insert", "release", "remove"}
        PROVE  owner'[MutexOf[on[s]]] = s
    <3>1. owner[MutexOf[on[s]]] = s /\ MutexOf[on[s]] \in Mutexes /\ s # t
      BY <1>1, <2>1 DEF IInv, CallInv, Using
    <3> QED
      BY <1>1, <3>1
  <2> QED
    BY <1>1, <2>1 DEF IInv, CallInv
<1>4. ListInv'
  BY <1>1, ListKept DEF IInv
<1> QED
  BY <1>2, <1>3, <1>4 DEF IInv

LEMMA DestroyInv ==
  ASSUME IInv, NEW t \in Threads, NEW c \in Conds, DestroyCond(t, c)
  PROVE  IInv'
<1> USE DEF DestroyCond, mutexVars, keyVars
<1>1. Types' /\ KeyInv' /\ EventInv'
  BY DEF IInv, Types, KeyInv, EventInv
<1>2. CallInv'
  BY DEF IInv, Types, CallInv, Creating, Using
<1>3. ListInv'
  BY ListKept DEF IInv
<1> QED
  BY <1>1, <1>2, <1>3 DEF IInv

------------------------------------------------------------------------------
(* opj_cond_wait.                                                          *)
LEMMA BeginWaitInv ==
  ASSUME IInv, NEW t \in Threads, NEW c \in Conds, BeginWait(t, c)
  PROVE  IInv'
<1> USE WinCondAssumption DEF BeginWait, At, mutexVars, keyVars, listVars
<1>1. TLSKey = 1 /\ 1 \in 1..Cardinality(Threads)
  BY FS_CardinalityType DEF IInv, Types, KeyInv
<1>2. /\ event' \in [Threads -> [1..Cardinality(Threads) -> {None, "unset", "set", "closed"}]]
      /\ \A s \in Threads \ {t} : event'[s] = event[s]
      /\ event'[t][1] = IF event[t][1] = None THEN "unset" ELSE event[t][1]
  <2>1. CASE event[t][1] = None
    BY <1>1, <2>1 DEF IInv, Types
  <2>2. CASE event[t][1] # None
    BY <1>1, <2>2 DEF IInv, Types
  <2> QED
    BY <2>1, <2>2
<1>3. Types'
  BY <1>2 DEF IInv, Types, States
<1>4. KeyInv'
  BY <1>1 DEF IInv, Types, KeyInv
<1>5. CallInv'
  BY DEF IInv, Types, CallInv, Creating, Using
<1>6. EventInv'
  BY <1>1, <1>2 DEF IInv, Types, EventInv, Sleeping
<1>7. ListInv'
  BY <1>2, ListKept DEF IInv, Types
<1> QED
  BY <1>3, <1>4, <1>5, <1>6, <1>7 DEF IInv

\* Where a thread is, and the condition it is about, when it moves within a call.
LEMMA InsertInv ==
  ASSUME IInv, NEW t \in Threads, InsertWaiter(t)
  PROVE  /\ IInv' /\ TLSKey = 1 /\ TLSKey' = 1 /\ on[t] \in Conds /\ t \notin Asleep(on[t])
         /\ Asleep(on[t])' = Asleep(on[t]) \cup {t}
         /\ \A d \in Conds : d # on[t] => Asleep(d)' = Asleep(d)
<1> DEFINE c == on[t]
<1> USE WinCondAssumption DEF InsertWaiter, At, mutexVars, keyVars
<1>1. c \in Conds /\ cond[c] = "ready" /\ TLSKey = 1 /\ event[t][1] # "set"
  BY DEF IInv, CallInv, KeyInv, EventInv, Using, Sleeping
<1>2. /\ waiter_list[c] \in Seq(Threads \X {1}) /\ <<t, 1>> \in Threads \X {1}
      /\ waiter_list'[c] = << <<t, 1>> >> \o waiter_list[c]
      /\ \A d \in Conds : d # c => waiter_list'[d] = waiter_list[d]
      /\ waiter_list' = [waiter_list EXCEPT ![c] = << <<t, 1>> >> \o waiter_list[c]]
  BY <1>1 DEF IInv, Types
<1>3. Types'
  <2>1. waiter_list' \in [Conds -> Seq(Threads \X {1})]
    BY <1>1, <1>2, Prepended DEF IInv, Types
  <2> QED
    BY <2>1 DEF IInv, Types, States
<1>4. KeyInv'
  BY DEF IInv, Types, KeyInv
<1>5. CallInv'
  BY DEF IInv, Types, CallInv, Creating, Using
<1>6. EventInv'
  BY DEF IInv, Types, EventInv, Sleeping
<1>7. t \notin Asleep(c) /\ Asleep(c)' = Asleep(c) \cup {t}
  BY <1>1 DEF Asleep, Set, IInv, Types
<1>8. \A d \in Conds : d # c => Asleep(d)' = Asleep(d)
  BY <1>1 DEF Asleep, Set, IInv, Types
<1>9. ListInv'
  <2>1. ASSUME NEW d \in Conds, d # c
        PROVE  /\ NoTwice(waiter_list'[d])
               /\ Elements(waiter_list'[d]) = Sleepers(d)' \cup
                    (IF internal_mutex'[d] = None THEN {} ELSE {waiter_list'[d][1]})
               /\ internal_mutex'[d] # None => BeingWoken(d)'
    <3>1. UNCHANGED internal_mutex /\ Asleep(d)' = Asleep(d) /\ waiter_list'[d] = waiter_list[d]
      BY <1>2, <1>8, <2>1
    <3>2. internal_mutex[d] # None => BeingWoken(d)'
      BY <3>1 DEF BeingWoken, IInv, ListInv, Types
    <3> QED
      BY <3>1, <3>2 DEF IInv, ListInv, Sleepers
  <2>2. Elements(waiter_list[c]) = Sleepers(c) /\ NoTwice(waiter_list[c])
    BY <1>1 DEF IInv, ListInv
  <2>3. <<t, 1>> \notin Elements(waiter_list[c])
    BY <1>7, <2>2 DEF Sleepers
  <2>4. /\ NoTwice(waiter_list'[c])
        /\ Elements(waiter_list'[c]) = {<<t, 1>>} \cup Elements(waiter_list[c])
    <3> DEFINE list == waiter_list[c]
    <3> DEFINE e == <<t, 1>>
    <3> DEFINE Es == Threads \X {1}
    <3>1. list \in Seq(Es) /\ e \in Es /\ NoTwice(list) /\ e \notin Elements(list)
      BY <1>2, <2>2, <2>3
    <3>2. waiter_list'[c] = <<e>> \o list
      BY <1>2
    <3> HIDE DEF list, e, Es, c
    <3>3. NoTwice(<<e>> \o list) /\ Elements(<<e>> \o list) = {e} \cup Elements(list)
      BY <3>1, Prepended
    <3>4. NoTwice(waiter_list'[c]) /\ Elements(waiter_list'[c]) = {e} \cup Elements(list)
      BY <3>2, <3>3
    <3> QED
      BY <3>4 DEF e, list
  <2>5. Elements(waiter_list'[c]) = Sleepers(c)' /\ internal_mutex'[c] = None
    BY <1>7, <2>2, <2>4 DEF Sleepers
  <2> QED
    BY <2>1, <2>4, <2>5 DEF ListInv
<1> QED
  BY <1>1, <1>3, <1>4, <1>5, <1>6, <1>7, <1>8, <1>9 DEF IInv

\* The thread that is being taken off the list of a condition moves on within its
\* wait, but does not leave it.
LEMMA ListKeptWaiting ==
  ASSUME IInv, NEW t \in Threads, UNCHANGED <<waiter_list, internal_mutex, on, TLSKey>>,
         \A c \in Conds : Asleep(c)' = Asleep(c),
         \A s \in Threads \ {t} : pc'[s] = pc[s],
         pc'[t] \in {"release", "block", "relock"}
  PROVE  ListInv'
<1>1. ASSUME NEW c \in Conds, internal_mutex[c] # None PROVE BeingWoken(c)'
  BY <1>1 DEF BeingWoken, IInv, ListInv
<1> QED
  BY <1>1 DEF IInv, ListInv, Sleepers

LEMMA ReleaseInv ==
  ASSUME IInv, NEW t \in Threads, ReleaseMutex(t)
  PROVE  IInv' /\ \A d \in Conds : Asleep(d)' = Asleep(d)
<1> USE WinCondAssumption DEF ReleaseMutex, At, keyVars, listVars
<1>0. on[t] \in Conds /\ MutexOf[on[t]] \in Mutexes /\ owner[MutexOf[on[t]]] = t
  BY DEF IInv, CallInv, Using
<1>1. Types'
  BY <1>0 DEF IInv, Types, States
<1>2. KeyInv'
  BY DEF IInv, Types, KeyInv
<1>3. CallInv'
  <2>1. \A s \in Threads : s # t => pc'[s] = pc[s]
    BY DEF IInv, Types
  <2>2. pc[t] = "release" /\ pc'[t] = "block"
    BY DEF IInv, Types
  <2>3. ASSUME NEW s \in Threads, pc'[s] \in {"insert", "release", "remove"}
        PROVE  owner'[MutexOf[on[s]]] = s
    <3>1. s # t /\ owner[MutexOf[on[s]]] = s /\ MutexOf[on[s]] \in Mutexes
      BY <2>1, <2>2, <2>3 DEF IInv, CallInv, Using
    <3> QED
      BY <1>0, <3>1 DEF IInv, Types
  <2> QED
    BY <2>1, <2>2, <2>3 DEF IInv, CallInv, Creating, Using
<1>4. EventInv'
  BY DEF IInv, Types, EventInv, Sleeping
<1>5. ASSUME NEW d \in Conds PROVE Asleep(d)' = Asleep(d)
  BY DEF Asleep, Set, IInv, Types
<1>6. ListInv'
  BY <1>5, ListKeptWaiting DEF IInv, Types
<1> QED
  BY <1>1, <1>2, <1>3, <1>4, <1>5, <1>6 DEF IInv

LEMMA PassInv ==
  ASSUME IInv, NEW t \in Threads, PassEvent(t)
  PROVE  IInv' /\ \A d \in Conds : Asleep(d)' = Asleep(d)
<1> USE WinCondAssumption DEF PassEvent, At, mutexVars, keyVars, listVars
<1>0. TLSKey = 1 /\ 1 \in 1..Cardinality(Threads)
  BY FS_CardinalityType DEF IInv, Types, KeyInv, CallInv, Using
<1>1. /\ event' \in [Threads -> [1..Cardinality(Threads) -> {None, "unset", "set", "closed"}]]
      /\ \A s \in Threads \ {t} : event'[s] = event[s]
      /\ event'[t][1] = "unset"
  BY <1>0 DEF IInv, Types
<1>2. Types'
  BY <1>1 DEF IInv, Types, States
<1>3. KeyInv'
  BY <1>0 DEF IInv, Types, KeyInv
<1>4. CallInv'
  BY DEF IInv, Types, CallInv, Creating, Using
<1>5. EventInv'
  BY <1>0, <1>1 DEF IInv, Types, EventInv, Sleeping
<1>6. ASSUME NEW d \in Conds PROVE Asleep(d)' = Asleep(d)
  <2>1. t \notin Asleep(d) /\ t \notin Asleep(d)'
    BY <1>0 DEF Asleep, Set, IInv, Types
  <2>2. ASSUME NEW s \in Threads, s # t PROVE s \in Asleep(d)' <=> s \in Asleep(d)
    <3>1. event'[s] = event[s] /\ pc'[s] = pc[s]
      BY <1>1, <2>2 DEF IInv, Types
    <3> QED
      BY <1>0, <3>1 DEF Asleep, Set
  <2>3. Asleep(d) \subseteq Threads /\ Asleep(d)' \subseteq Threads
    BY DEF Asleep
  <2> QED
    BY <2>1, <2>2, <2>3
<1>7. ListInv'
  BY <1>6, ListKeptWaiting DEF IInv, Types
<1> QED
  BY <1>2, <1>3, <1>4, <1>5, <1>6, <1>7 DEF IInv

\* While a signal is being given, the mutex that goes with the condition is taken.
LEMMA RelockInv ==
  ASSUME IInv, NEW t \in Threads, Relock(t)
  PROVE  IInv' /\ \A d \in Conds : Asleep(d)' = Asleep(d)
<1> USE WinCondAssumption DEF Relock, At, keyVars, listVars
<1>0. on[t] \in Conds /\ MutexOf[on[t]] \in Mutexes /\ pc[t] = "relock"
  BY DEF IInv, CallInv, Using
<1>1. Types'
  BY <1>0 DEF IInv, Types, States
<1>2. KeyInv'
  BY DEF IInv, Types, KeyInv
<1>3. \A s \in Threads : s # t => pc'[s] = pc[s] /\ on'[s] = on[s]
  BY DEF IInv, Types
<1>4. pc'[t] = "out" /\ on'[t] = None
  BY DEF IInv, Types
<1>5. CallInv'
  <2>1. ASSUME NEW s \in Threads, pc'[s] \in {"insert", "release", "remove"}
        PROVE  owner'[MutexOf[on'[s]]] = s
    <3>1. s # t /\ owner[MutexOf[on[s]]] = s /\ MutexOf[on[s]] \in Mutexes
      BY <1>3, <1>4, <2>1 DEF IInv, CallInv, Using
    <3> QED
      BY <1>0, <1>3, <3>1 DEF IInv, Types
  <2> QED
    BY <1>0, <1>3, <1>4, <2>1 DEF IInv, CallInv, Creating, Using
<1>6. EventInv'
  BY DEF IInv, Types, EventInv, Sleeping
<1>7. ASSUME NEW d \in Conds PROVE Asleep(d)' = Asleep(d)
  BY <1>0, <1>3, <1>4 DEF Asleep, Set
<1>8. ListInv'
  <2>1. ASSUME NEW c \in Conds, internal_mutex[c] # None PROVE BeingWoken(c)'
    <3>1. internal_mutex[c] \in Threads /\ BeingWoken(c)
      BY <2>1 DEF IInv, Types, ListInv
    <3>2. owner[MutexOf[c]] = internal_mutex[c]
      BY <3>1 DEF IInv, CallInv
    <3>3. waiter_list[c][1][1] # t
      BY <3>1, <3>2 DEF BeingWoken
    <3> QED
      BY <1>3, <1>7, <3>1, <3>3 DEF BeingWoken
  <2> QED
    BY <1>7, <2>1 DEF IInv, ListInv, Sleepers
<1> QED
  BY <1>1, <1>2, <1>5, <1>6, <1>7, <1>8 DEF IInv

------------------------------------------------------------------------------
(* opj_cond_signal.                                                        *)
LEMMA FirstSleeps ==
  ASSUME IInv, NEW c \in Conds, waiter_list[c] # <<>>, internal_mutex[c] = None
  PROVE  /\ Head(waiter_list[c]) = waiter_list[c][1]
         /\ waiter_list[c][1] = <<waiter_list[c][1][1], 1>>
         /\ waiter_list[c][1][1] \in Asleep(c)
<1> DEFINE list == waiter_list[c]
<1>1. list \in Seq(Threads \X {1}) /\ NoTwice(list) /\ Elements(list) = Sleepers(c)
  BY DEF IInv, Types, ListInv
<1>2. Head(list) = list[1] /\ list[1] \in Elements(list)
  BY <1>1, FirstRemoved
<1>3. PICK f \in Asleep(c) : list[1] = <<f, 1>>
  BY <1>1, <1>2 DEF Sleepers
<1> QED
  BY <1>2, <1>3

LEMMA SetFirstInv ==
  ASSUME IInv, NEW t \in Threads, NEW c \in Conds, SetFirstEvent(t, c)
  PROVE  /\ IInv' /\ TLSKey = 1 /\ TLSKey' = 1
         /\ \E f \in Asleep(c) :
              /\ pc'[f] = pc[f] /\ on'[f] = c /\ Set(f)' /\ Asleep(c)' = Asleep(c) \ {f}
              /\ \A s \in Threads \ {f} : (Set(s)' <=> Set(s))
         /\ \A d \in Conds : d # c => Asleep(d)' = Asleep(d)
<1> USE WinCondAssumption DEF At, mutexVars, keyVars
<1>0. TLSKey = 1 /\ 1 \in 1..Cardinality(Threads)
  BY FS_CardinalityType DEF SetFirstEvent, IInv, Types, KeyInv
<1>1. PICK f \in Asleep(c) :
        Head(waiter_list[c]) = waiter_list[c][1] /\ waiter_list[c][1] = <<f, 1>>
  BY FirstSleeps DEF SetFirstEvent
<1>2. f \in Threads /\ on[f] = c /\ pc[f] \in Sleeping /\ event[f][1] # "set" /\ f # t
  BY <1>0, <1>1 DEF Asleep, Sleeping, Set, SetFirstEvent
<1>3. event' = [event EXCEPT ![f][1] = "set"]
  <2>1. Head(waiter_list[c])[1] = f /\ Head(waiter_list[c])[2] = 1
    BY <1>1
  <2> QED
    BY <2>1 DEF SetFirstEvent
<1>4. /\ event' \in [Threads -> [1..Cardinality(Threads) -> {None, "unset", "set", "closed"}]]
      /\ \A s \in Threads \ {f} : event'[s] = event[s]
      /\ event'[f][1] = "set"
  BY <1>0, <1>2, <1>3 DEF IInv, Types
<1>5. /\ pc[t] = "out" /\ pc'[t] = "remove" /\ on'[t] = c /\ on[t] = None
      /\ \A s \in Threads : s # t => pc'[s] = pc[s] /\ on'[s] = on[s]
      /\ \A d \in Conds : d # c => internal_mutex'[d] = internal_mutex[d]
      /\ internal_mutex[c] = None /\ internal_mutex'[c] = t /\ cond[c] = "ready"
      /\ owner[MutexOf[c]] = t /\ waiter_list[c] # <<>>
      /\ UNCHANGED <<owner, keyVars, cond, waiter_list>>
  <2>1. pc[t] = "out" /\ on[t] = None
    BY DEF SetFirstEvent, IInv, CallInv, Creating, Using
  <2>2. pc'[t] = "remove" /\ on'[t] = c /\ \A s \in Threads : s # t => pc'[s] = pc[s] /\ on'[s] = on[s]
    BY DEF SetFirstEvent, IInv, Types
  <2>3. /\ \A d \in Conds : d # c => internal_mutex'[d] = internal_mutex[d]
        /\ internal_mutex[c] = None /\ internal_mutex'[c] = t
    BY DEF SetFirstEvent, IInv, Types
  <2> QED
    BY <2>1, <2>2, <2>3 DEF SetFirstEvent
<1>6. Types'
  BY <1>4, <1>5 DEF IInv, Types, States, SetFirstEvent
<1>7. KeyInv'
  BY <1>0, <1>5 DEF IInv, KeyInv
<1>8. CallInv'
  <2>1. ASSUME NEW d \in Conds, NEW s \in Threads
        PROVE  internal_mutex'[d] = s <=> pc'[s] = "remove" /\ on'[s] = d
    <3>1. CASE s = t
      BY <1>5, <3>1 DEF IInv, CallInv
    <3>2. CASE s # t
      BY <1>5, <3>2 DEF IInv, CallInv
    <3> QED
      BY <3>1, <3>2
  <2> QED
    BY <1>5, <2>1 DEF IInv, CallInv, Creating, Using
<1>9. EventInv'
  BY <1>0, <1>2, <1>4, <1>5 DEF IInv, EventInv, Sleeping
<1>10. Set(f)' /\ \A s \in Threads \ {f} : (Set(s)' <=> Set(s))
  <2>1. TLSKey' = 1
    BY <1>0, <1>5
  <2>2. Set(f)'
    BY <1>4, <2>1 DEF Set
  <2>3. ASSUME NEW s \in Threads \ {f} PROVE Set(s)' <=> Set(s)
    <3>1. event'[s] = event[s]
      BY <1>4
    <3> QED
      BY <1>0, <2>1, <3>1 DEF Set
  <2> QED
    BY <2>2, <2>3
<1>11. ASSUME NEW d \in Conds
       PROVE  Asleep(d)' = IF d = c THEN Asleep(d) \ {f} ELSE Asleep(d)
  <2>1. f \notin Asleep(d)' /\ t \notin Asleep(d)' /\ t \notin Asleep(d)
    <3>1. f \notin Asleep(d)'
      BY <1>10 DEF Asleep
    <3>2. t \notin Asleep(d)' /\ t \notin Asleep(d)
      BY <1>5 DEF Asleep
    <3> QED
      BY <3>1, <3>2
  <2>2. d # c => f \notin Asleep(d)
    BY <1>2 DEF Asleep
  <2>3. ASSUME NEW s \in Threads, s # t, s # f PROVE s \in Asleep(d)' <=> s \in Asleep(d)
    <3>1. pc'[s] = pc[s] /\ on'[s] = on[s] /\ (Set(s)' <=> Set(s))
      BY <1>5, <1>10, <2>3
    <3> QED
      BY <3>1 DEF Asleep
  <2>4. Asleep(d) \subseteq Threads /\ Asleep(d)' \subseteq Threads
    BY DEF Asleep
  <2> QED
    BY <2>1, <2>2, <2>3, <2>4
<1>12. BeingWoken(c)'
  BY <1>1, <1>2, <1>5, <1>11 DEF BeingWoken, Sleeping
<1>13. ASSUME NEW d \in Conds, d # c, internal_mutex[d] # None PROVE BeingWoken(d)'
  <2>1. BeingWoken(d)
    BY <1>13 DEF IInv, ListInv
  <2>2. waiter_list[d][1][1] # t
    BY <1>5, <2>1 DEF BeingWoken
  <2> QED
    BY <1>5, <1>11, <1>13, <2>1, <2>2 DEF BeingWoken
<1>14. ListInv'
  <2>1. ASSUME NEW d \in Conds, d # c
        PROVE  /\ NoTwice(waiter_list'[d])
               /\ Elements(waiter_list'[d]) = Sleepers(d)' \cup
                    (IF internal_mutex'[d] = None THEN {} ELSE {waiter_list'[d][1]})
               /\ internal_mutex'[d] # None => BeingWoken(d)'
    BY <1>5, <1>11, <1>13, <2>1 DEF IInv, ListInv, Sleepers
  <2>2. NoTwice(waiter_list[c]) /\ Elements(waiter_list[c]) = Sleepers(c)
    BY <1>5 DEF IInv, ListInv
  <2>3. Sleepers(c) = Sleepers(c)' \cup {<<f, 1>>}
    BY <1>1, <1>11 DEF Sleepers
  <2>4. Elements(waiter_list'[c]) = Sleepers(c)' \cup
          (IF internal_mutex'[c] = None THEN {} ELSE {waiter_list'[c][1]})
    BY <1>1, <1>5, <2>2, <2>3
  <2> QED
    BY <1>5, <1>12, <2>1, <2>2, <2>4 DEF ListInv
<1>15. \E g \in Asleep(c) :
         /\ pc'[g] = pc[g] /\ on'[g] = c /\ Set(g)' /\ Asleep(c)' = Asleep(c) \ {g}
         /\ \A s \in Threads \ {g} : (Set(s)' <=> Set(s))
  <2>1. f \in Asleep(c) /\ pc'[f] = pc[f] /\ on'[f] = c /\ Asleep(c)' = Asleep(c) \ {f}
    BY <1>1, <1>2, <1>5, <1>11
  <2> QED
    BY <1>10, <2>1
<1> QED
  BY <1>0, <1>5, <1>6, <1>7, <1>8, <1>9, <1>11, <1>14, <1>15 DEF IInv

LEMMA RemoveFirstInv ==
  ASSUME IInv, NEW t \in Threads, UnlinkFirst(t)
  PROVE  IInv' /\ \A d \in Conds : Asleep(d)' = Asleep(d)
<1>0. PICK c \in Conds : c = on[t]
  BY DEF UnlinkFirst, At, IInv, CallInv, Using
<1> DEFINE list == waiter_list[c]
<1> USE WinCondAssumption DEF At, mutexVars, keyVars
<1>1. /\ pc[t] = "remove" /\ pc'[t] = "out" /\ on'[t] = None /\ c = on[t]
      /\ \A s \in Threads : s # t => pc'[s] = pc[s] /\ on'[s] = on[s]
      /\ internal_mutex[c] = t /\ internal_mutex'[c] = None
      /\ \A d \in Conds : d # c => internal_mutex'[d] = internal_mutex[d]
      /\ \A d \in Conds : d # c => waiter_list'[d] = waiter_list[d]
      /\ waiter_list'[c] = Tail(list) /\ waiter_list' = [waiter_list EXCEPT ![c] = Tail(list)]
      /\ UNCHANGED <<owner, keyVars, cond, event>>
  BY <1>0 DEF UnlinkFirst, IInv, Types, CallInv
<1>2. list \in Seq(Threads \X {1}) /\ NoTwice(list) /\ list # <<>> /\ BeingWoken(c)
  BY <1>1 DEF IInv, Types, ListInv, BeingWoken
<1>3. /\ list[1] \in Threads \X {1} /\ Tail(list) \in Seq(Threads \X {1})
      /\ NoTwice(Tail(list)) /\ Elements(Tail(list)) = Elements(list) \ {list[1]}
  BY <1>2, FirstRemoved
<1>4. Types'
  BY <1>1, <1>3 DEF IInv, Types, States, UnlinkFirst
<1>5. KeyInv'
  BY <1>1 DEF IInv, KeyInv
<1>6. CallInv'
  <2>1. ASSUME NEW d \in Conds, NEW s \in Threads
        PROVE  internal_mutex'[d] = s <=> pc'[s] = "remove" /\ on'[s] = d
    <3>1. CASE s = t
      BY <1>1, <3>1 DEF IInv, CallInv
    <3>2. CASE s # t
      BY <1>1, <3>2 DEF IInv, CallInv
    <3> QED
      BY <3>1, <3>2
  <2> QED
    BY <1>1, <2>1 DEF IInv, CallInv, Creating, Using
<1>7. EventInv'
  BY <1>1 DEF IInv, EventInv, Sleeping
<1>8. ASSUME NEW d \in Conds PROVE Asleep(d)' = Asleep(d)
  BY <1>1 DEF Asleep, Set
<1>9. ListInv'
  <2>1. ASSUME NEW d \in Conds, d # c, internal_mutex[d] # None PROVE BeingWoken(d)'
    <3>1. BeingWoken(d)
      BY <2>1 DEF IInv, ListInv
    <3>2. waiter_list[d][1][1] # t
      BY <1>1, <3>1 DEF BeingWoken
    <3> QED
      BY <1>1, <1>8, <2>1, <3>1, <3>2 DEF BeingWoken
  <2>2. ASSUME NEW d \in Conds, d # c
        PROVE  /\ NoTwice(waiter_list'[d])
               /\ Elements(waiter_list'[d]) = Sleepers(d)' \cup
                    (IF internal_mutex'[d] = None THEN {} ELSE {waiter_list'[d][1]})
               /\ internal_mutex'[d] # None => BeingWoken(d)'
    BY <1>1, <1>8, <2>1, <2>2 DEF IInv, ListInv, Sleepers
  <2>3. Elements(list) = Sleepers(c) \cup {list[1]}
    BY <1>1 DEF IInv, ListInv
  <2>4. list[1] \notin Sleepers(c)
    <3>1. list[1][1] \notin Asleep(c)
      BY <1>2 DEF BeingWoken
    <3> QED
      BY <3>1 DEF Sleepers
  <2>5. Elements(waiter_list'[c]) = Sleepers(c)' /\ NoTwice(waiter_list'[c])
    <3>1. Sleepers(c)' = Sleepers(c)
      BY <1>1, <1>8 DEF Sleepers
    <3> HIDE DEF list
    <3>2. Elements(Tail(list)) = Sleepers(c)
      <4>1. Elements(Tail(list)) = Elements(list) \ {list[1]}
        BY <1>3
      <4> QED
        BY <2>3, <2>4, <4>1
    <3>3. waiter_list'[c] = Tail(list) /\ NoTwice(Tail(list))
      BY <1>1, <1>3
    <3> QED
      BY <3>1, <3>2, <3>3
  <2> QED
    BY <1>1, <2>2, <2>5 DEF ListInv
<1> QED
  BY <1>4, <1>5, <1>6, <1>7, <1>8, <1>9 DEF IInv

------------------------------------------------------------------------------
LEMMA NextInv == IInv /\ [Next]_vars => IInv'
<1> SUFFICES ASSUME IInv, [Next]_vars PROVE IInv'
  OBVIOUS
<1>1. CASE UNCHANGED vars
  BY <1>1 DEF vars, IInv, Types, KeyInv, CallInv, EventInv, ListInv, BeingWoken, Sleepers,
     Asleep, Set
<1>2. ASSUME NEW t \in Threads, KeyStep(t) PROVE IInv'
  BY <1>2, KeyStepInv
<1>3. ASSUME NEW t \in Threads,
             InsertWaiter(t) \/ ReleaseMutex(t) \/ PassEvent(t) \/ Relock(t) \/ UnlinkFirst(t)
      PROVE  IInv'
  BY <1>3, InsertInv, ReleaseInv, PassInv, RelockInv, RemoveFirstInv
<1>4. ASSUME NEW t \in Threads, NEW m \in Mutexes, Lock(t, m) \/ Unlock(t, m) PROVE IInv'
  BY <1>4, LockInv
<1>5. ASSUME NEW t \in Threads, NEW c \in Conds,
             BeginWait(t, c) \/ SetFirstEvent(t, c) \/ DestroyCond(t, c)
      PROVE  IInv'
  BY <1>5, BeginWaitInv, SetFirstInv, DestroyInv
<1> QED
  BY <1>1, <1>2, <1>3, <1>4, <1>5 DEF Next, KeyStep

LEMMA Invariance == Spec => []IInv
<1>1. Init => IInv
  BY InitInv
<1>2. IInv /\ [Next]_vars => IInv'
  BY NextInv
<1> QED
  BY <1>1, <1>2, PTL DEF Spec

\* opj_cond_signal finds every thread that sleeps on the condition, and no other;
\* an event is set for the wait its thread is in, one key serves all conditions,
\* and no event is set that has been closed.
THEOREM WakeCorrect == Spec => []WaitersWoken
<1>1. IInv => WaitersWoken
  <2> SUFFICES ASSUME IInv PROVE WaitersWoken
    OBVIOUS
  <2>1. ASSUME NEW t \in Threads, Set(t) PROVE pc[t] \in {"release", "block"}
    BY <2>1 DEF IInv, Types, EventInv, Set, Sleeping
  <2>2. keys <= 1
    BY DEF IInv, Types
  <2>3. ASSUME NEW c \in Conds
        PROVE  LET list == waiter_list[c] IN
                 /\ \A i, k \in DOMAIN list : list[i] = list[k] => i = k
                 /\ {list[i] : i \in DOMAIN list} =
                      {<<s, TLSKey>> : s \in Asleep(c)}
                        \cup (IF internal_mutex[c] = None THEN {} ELSE {list[1]})
                 /\ \A i \in DOMAIN list : event[list[i][1]][list[i][2]] \notin {None, "closed"}
                 /\ cond[c] = "destroyed" => list = <<>>
    <3> DEFINE list == waiter_list[c]
    <3>1. NoTwice(list) /\ list \in Seq(Threads \X {1})
      BY DEF IInv, ListInv, Types
    <3>2. Elements(list) = Sleepers(c) \cup (IF internal_mutex[c] = None THEN {} ELSE {list[1]})
      BY DEF IInv, ListInv
    <3>3. Asleep(c) # {} \/ internal_mutex[c] # None => TLSKey = 1 /\ cond[c] = "ready"
      BY DEF IInv, Types, KeyInv, CallInv, Asleep, Using
    <3>4. {<<s, TLSKey>> : s \in Asleep(c)} = Sleepers(c)
      BY <3>3 DEF Sleepers
    <3>5. ASSUME NEW i \in DOMAIN list PROVE event[list[i][1]][list[i][2]] \notin {None, "closed"}
      <4>1. list[i] \in Elements(list) /\ list[i] \in Threads \X {1}
        BY <3>1, LenProperties, ElementOfSeq DEF Elements
      <4>2. PICK s \in Threads : list[i] = <<s, 1>> /\ pc[s] \in {"release", "block", "relock"}
        <5>1. CASE list[i] \in Sleepers(c)
          BY <5>1 DEF Sleepers, Asleep
        <5>2. CASE internal_mutex[c] # None /\ list[i] = list[1]
          BY <4>1, <5>2 DEF IInv, ListInv, BeingWoken
        <5> QED
          BY <3>2, <4>1, <5>1, <5>2
      <4>3. TLSKey = 1
        BY <3>2, <3>3, <4>1 DEF Sleepers
      <4> QED
        BY <4>2, <4>3 DEF IInv, EventInv
    <3>6. cond[c] = "destroyed" => list = <<>>
      <4> SUFFICES ASSUME cond[c] = "destroyed", list # <<>> PROVE FALSE
        OBVIOUS
      <4>1. list[1] \in Elements(list)
        BY <3>1, FirstRemoved
      <4> QED
        BY <3>2, <3>3, <4>1 DEF Sleepers
    <3> QED
      BY <3>1, <3>2, <3>4, <3>5, <3>6 DEF NoTwice, Elements
  <2> QED
    BY <2>1, <2>2, <2>3 DEF WaitersWoken
<1> QED
  BY <1>1, Invariance, PTL

------------------------------------------------------------------------------
(* The refinement of CondVar.  A thread that has put itself on the list    *)
(* sleeps; from when its event is set it is awake but for its mutex, which *)
(* is as good as free until it has given it up.                            *)
Releasing(m) == \E t \in Threads : pc[t] = "release" /\ MutexOf[on[t]] = m
Owner == [m \in Mutexes |-> IF Releasing(m) THEN None ELSE owner[m]]
Waiting == [c \in Conds |-> Asleep(c)]
IsWoken(t) == pc[t] = "relock" \/ (pc[t] \in Sleeping /\ Set(t))
Woken == [t \in Threads |-> IF IsWoken(t) THEN on[t] ELSE None]

LEMMA Mapping ==
  /\ Abstract!vars = <<Owner, Waiting, Woken>>
  /\ Abstract!vars' = <<Owner', Waiting', Woken'>>
  /\ \A t : Abstract!Awake(t) <=> Woken[t] = None /\ \A c \in Conds : t \notin Waiting[c]
BY DEF Abstract!vars, Abstract!Awake, Owner, Releasing, Waiting, Woken, IsWoken, Sleeping

\* A thread in no wait is awake.
LEMMA OthersAwake ==
  ASSUME NEW t \in Threads, pc[t] \notin {"release", "block", "relock"}
  PROVE  Abstract!Awake(t)
<1>1. Woken[t] = None
  BY DEF Woken, IsWoken, Sleeping
<1>2. \A c \in Conds : Waiting[c] = Asleep(c) /\ t \notin Asleep(c)
  BY DEF Waiting, Asleep
<1> QED
  BY <1>1, <1>2, Mapping

\* Nobody who holds a mutex, except in the one place, is giving it up.
LEMMA NotReleasing ==
  ASSUME IInv, NEW m \in Mutexes,
         \A t \in Threads : owner[m] = t => pc[t] # "release"
  PROVE  ~Releasing(m) /\ Owner[m] = owner[m]
<1>1. ~Releasing(m)
  BY DEF Releasing, IInv, CallInv
<1> QED
  BY <1>1 DEF Owner

LEMMA InitSimulates == Init => Abstract!Init
<1> SUFFICES ASSUME Init PROVE Abstract!Init
  OBVIOUS
<1>1. Owner = [m \in Mutexes |-> None]
  BY DEF Owner, Releasing, Init
<1>2. Waiting = [c \in Conds |-> {}]
  BY DEF Waiting, Asleep, Init
<1>3. Woken = [t \in Threads |-> None]
  BY DEF Woken, IsWoken, Sleeping, Init
<1> QED
  BY <1>1, <1>2, <1>3 DEF Abstract!Init, Owner, Releasing, Waiting, Woken, IsWoken, Sleeping

\* A step that changes neither who sleeps, who has been woken, nor, but for those
\* who are giving one up, who holds a mutex.
LEMMA NoChange ==
  ASSUME \A c \in Conds : Asleep(c)' = Asleep(c),
         \A m \in Mutexes : Owner'[m] = Owner[m],
         \A t \in Threads : Woken'[t] = Woken[t]
  PROVE  UNCHANGED Abstract!vars
<1>1. Waiting' = Waiting
  BY DEF Waiting
<1>2. Owner' = Owner
  BY DEF Owner
<1>3. Woken' = Woken
  BY DEF Woken
<1> QED
  BY <1>1, <1>2, <1>3, Mapping

LEMMA OthersStutter ==
  ASSUME IInv, NEW t \in Threads, UNCHANGED owner,
         pc[t] \notin {"release", "block", "relock"}, pc'[t] \notin {"release", "block", "relock"},
         \A s \in Threads \ {t} : pc'[s] = pc[s] /\ on'[s] = on[s] /\ event'[s] = event[s],
         TLSKey' = TLSKey \/ \A s \in Threads : pc[s] \notin Sleeping
  PROVE  UNCHANGED Abstract!vars
<1>1. ASSUME NEW c \in Conds PROVE Asleep(c)' = Asleep(c)
  BY DEF Asleep, Set, Sleeping
<1>2. ASSUME NEW m \in Mutexes PROVE Owner'[m] = Owner[m]
  <2>1. Releasing(m)' <=> Releasing(m)
    BY DEF Releasing
  <2> QED
    BY <2>1 DEF Owner
<1>3. ASSUME NEW s \in Threads PROVE Woken'[s] = Woken[s]
  <2>1. /\ IsWoken(s)' <=> IsWoken(s)
        /\ s = t => ~IsWoken(s) /\ ~IsWoken(s)'
    BY DEF IsWoken, Set, Sleeping
  <2> QED
    BY <2>1 DEF Woken
<1> QED
  BY <1>1, <1>2, <1>3, NoChange

LEMMA AbstractSteps ==
  ASSUME NEW t, NEW m, NEW c
  PROVE  /\ Abstract!Lock(t, m) <=>
              /\ Abstract!Awake(t) /\ Owner[m] = None
              /\ Owner' = [Owner EXCEPT ![m] = t] /\ Waiting' = Waiting /\ Woken' = Woken
         /\ Abstract!Unlock(t, m) <=>
              /\ Abstract!Awake(t) /\ Owner[m] = t
              /\ Owner' = [Owner EXCEPT ![m] = None] /\ Waiting' = Waiting /\ Woken' = Woken
         /\ Abstract!Wait(t, c) <=>
              /\ Abstract!Awake(t) /\ Owner[MutexOf[c]] = t
              /\ Owner' = [Owner EXCEPT ![MutexOf[c]] = None]
              /\ Waiting' = [Waiting EXCEPT ![c] = @ \cup {t}] /\ Woken' = Woken
         /\ Abstract!Signal(t, c) <=>
              /\ Abstract!Awake(t) /\ Owner[MutexOf[c]] = t
              /\ \E s \in Waiting[c] : /\ Waiting' = [Waiting EXCEPT ![c] = @ \ {s}]
                                       /\ Woken' = [Woken EXCEPT ![s] = c]
              /\ Owner' = Owner
         /\ Abstract!Return(t) <=>
              /\ Woken[t] # None /\ Owner[MutexOf[Woken[t]]] = None
              /\ Owner' = [Owner EXCEPT ![MutexOf[Woken[t]]] = t]
              /\ Woken' = [Woken EXCEPT ![t] = None] /\ Waiting' = Waiting
BY DEF Abstract!Lock, Abstract!Unlock, Abstract!Wait, Abstract!Signal, Abstract!Return,
   Owner, Releasing, Waiting, Woken, IsWoken, Sleeping

LEMMA StutterSteps ==
  ASSUME IInv, NEW t \in Threads,
         \/ KeyStep(t) \/ UnlinkFirst(t)
         \/ \E c \in Conds : BeginWait(t, c) \/ DestroyCond(t, c)
  PROVE  UNCHANGED Abstract!vars
<1> USE WinCondAssumption DEF At, mutexVars, keyVars, listVars, IInv, Types
<1>1. CASE EndThread(t) \/ EnterTLSSection(t) \/ InitKey(t) \/ LeaveTLSSection(t)
  BY <1>1, OthersStutter DEF EndThread, EnterTLSSection, InitKey, LeaveTLSSection
<1>2. CASE AllocKey(t)
  <2>1. TLSKey = 0 /\ \A s \in Threads : pc[s] \notin Sleeping
    BY <1>2 DEF AllocKey, KeyInv, CallInv, Using, Sleeping
  <2> QED
    BY <1>2, <2>1, OthersStutter DEF AllocKey
<1>3. CASE FindEvent(t) \/ CloseEvent(t)
  BY <1>3, OthersStutter DEF FindEvent, CloseEvent
<1>4. CASE \E c \in Conds : CreateCond(t, c)
  BY <1>4, OthersStutter DEF CreateCond
<1>5. CASE UnlinkFirst(t)
  BY <1>5, OthersStutter DEF UnlinkFirst
<1>6. CASE \E c \in Conds : BeginWait(t, c)
  BY <1>6, OthersStutter DEF BeginWait
<1>7. CASE \E c \in Conds : DestroyCond(t, c)
  BY <1>7, OthersStutter DEF DestroyCond
<1> QED
  BY <1>1, <1>2, <1>3, <1>4, <1>5, <1>6, <1>7 DEF KeyStep

LEMMA LockSimulates ==
  ASSUME IInv, NEW t \in Threads, NEW m \in Mutexes, Lock(t, m) \/ Unlock(t, m)
  PROVE  Abstract!Lock(t, m) \/ Abstract!Unlock(t, m)
<1> USE DEF Lock, Unlock, keyVars, listVars
<1>1. pc[t] = "out" /\ UNCHANGED <<keyVars, listVars, event, pc, on>>
  OBVIOUS
<1>2. Waiting' = Waiting /\ Woken' = Woken
  BY <1>1 DEF Waiting, Woken, Asleep, IsWoken, Set
<1>3. Abstract!Awake(t)
  BY <1>1, OthersAwake
<1>4. ~Releasing(m) /\ Owner[m] = owner[m]
  BY WinCondAssumption, <1>1, NotReleasing
<1>5. \A n \in Mutexes : Releasing(n)' <=> Releasing(n)
  BY <1>1 DEF Releasing
<1>6. CASE Lock(t, m)
  <2>1. owner' = [owner EXCEPT ![m] = t] /\ owner \in [Mutexes -> Threads \cup {None}]
    BY <1>6 DEF IInv, Types
  <2>2. Owner' = [Owner EXCEPT ![m] = t]
    BY <1>4, <1>5, <2>1 DEF Owner
  <2> QED
    BY <1>2, <1>3, <1>4, <1>6, <2>2, AbstractSteps
<1>7. CASE Unlock(t, m)
  <2>1. owner' = [owner EXCEPT ![m] = None] /\ owner \in [Mutexes -> Threads \cup {None}]
    BY <1>7 DEF IInv, Types
  <2>2. Owner' = [Owner EXCEPT ![m] = None]
    BY <1>4, <1>5, <2>1 DEF Owner
  <2> QED
    BY <1>2, <1>3, <1>4, <1>7, <2>2, AbstractSteps
<1> QED
  BY <1>6, <1>7

LEMMA InsertSimulates ==
  ASSUME IInv, NEW t \in Threads, InsertWaiter(t)
  PROVE  \E c \in Conds : Abstract!Wait(t, c)
<1>0. PICK c \in Conds : c = on[t]
  BY InsertInv
<1>1. /\ pc[t] = "insert" /\ pc'[t] = "release" /\ UNCHANGED <<owner, event, on, TLSKey>>
      /\ \A s \in Threads : s # t => pc'[s] = pc[s]
  BY DEF InsertWaiter, At, IInv, Types, mutexVars, keyVars
<1>2. /\ MutexOf[c] \in Mutexes /\ owner[MutexOf[c]] = t
      /\ event[t][1] # "set" /\ TLSKey = 1
  BY WinCondAssumption, <1>0, <1>1, InsertInv DEF IInv, CallInv, EventInv, Sleeping
<1>3. ~Releasing(MutexOf[c]) /\ Owner[MutexOf[c]] = t
  BY <1>1, <1>2, NotReleasing
<1>4. Owner' = [Owner EXCEPT ![MutexOf[c]] = None]
  <2>1. \A m \in Mutexes : Releasing(m)' <=> Releasing(m) \/ m = MutexOf[c]
    BY <1>0, <1>1 DEF Releasing
  <2> QED
    BY <1>1, <2>1 DEF Owner
<1>5. Waiting' = [Waiting EXCEPT ![c] = @ \cup {t}]
  <2>1. Asleep(c)' = Asleep(c) \cup {t} /\ \A d \in Conds : d # c => Asleep(d)' = Asleep(d)
    <3>1. on'[t] = c
      BY <1>0, <1>1
    <3> QED
      BY <1>0, <3>1, InsertInv
  <2> QED
    BY <2>1 DEF Waiting
<1>6. Woken' = Woken
  <2>1. ASSUME NEW s \in Threads PROVE IsWoken(s)' <=> IsWoken(s)
    <3>1. CASE s = t
      BY <1>1, <1>2, <3>1 DEF IsWoken, Set, Sleeping
    <3>2. CASE s # t
      BY <1>1, <3>2 DEF IsWoken, Set
    <3> QED
      BY <3>1, <3>2
  <2> QED
    BY <1>1, <2>1 DEF Woken
<1>7. Abstract!Awake(t)
  BY <1>1, OthersAwake
<1>8. Abstract!Wait(t, c)
  BY <1>3, <1>4, <1>5, <1>6, <1>7, AbstractSteps
<1> QED
  BY <1>8

LEMMA WaitingStutter ==
  ASSUME IInv, NEW t \in Threads, ReleaseMutex(t) \/ PassEvent(t)
  PROVE  UNCHANGED Abstract!vars
<1>1. \A c \in Conds : Asleep(c)' = Asleep(c)
  BY ReleaseInv, PassInv
<1>2. UNCHANGED <<on, TLSKey>> /\ \A s \in Threads : s # t => pc'[s] = pc[s] /\ event'[s] = event[s]
  BY DEF ReleaseMutex, PassEvent, At, IInv, Types, keyVars
<1>3. ASSUME NEW s \in Threads PROVE IsWoken(s)' <=> IsWoken(s)
  <2>1. CASE s # t
    BY <1>2, <2>1 DEF IsWoken, Set
  <2>2. CASE s = t /\ ReleaseMutex(t)
    BY <1>2, <2>2 DEF IsWoken, Set, Sleeping, ReleaseMutex, At, IInv, Types
  <2>3. CASE s = t /\ PassEvent(t)
    <3>1. TLSKey # 0
      BY <2>3 DEF PassEvent, At, IInv, KeyInv, CallInv, Using
    <3> QED
      BY <1>2, <2>3, <3>1 DEF IsWoken, Set, Sleeping, PassEvent, At, IInv, Types
  <2> QED
    BY <2>1, <2>2, <2>3
<1>4. ASSUME NEW m \in Mutexes PROVE Owner'[m] = Owner[m]
  <2>1. CASE ReleaseMutex(t)
    <3>1. /\ pc[t] = "release" /\ pc'[t] = "block" /\ on[t] \in Conds
          /\ owner' = [owner EXCEPT ![MutexOf[on[t]]] = None]
      BY <2>1 DEF ReleaseMutex, At, IInv, Types, CallInv, Using
    <3>2. CASE m = MutexOf[on[t]]
      <4>1. Releasing(m)
        BY <3>1, <3>2 DEF Releasing
      <4>2. owner'[m] = None
        BY <3>1, <3>2 DEF IInv, Types
      <4> QED
        BY <4>1, <4>2 DEF Owner
    <3>3. CASE m # MutexOf[on[t]]
      <4>1. Releasing(m)' <=> Releasing(m)
        BY <1>2, <3>1, <3>3 DEF Releasing
      <4>2. owner'[m] = owner[m]
        BY <3>1, <3>3 DEF IInv, Types
      <4> QED
        BY <4>1, <4>2 DEF Owner
    <3> QED
      BY <3>2, <3>3
  <2>2. CASE PassEvent(t)
    <3>1. pc[t] = "block" /\ pc'[t] = "relock" /\ UNCHANGED owner
      BY <2>2 DEF PassEvent, At, IInv, Types, mutexVars
    <3>2. Releasing(m)' <=> Releasing(m)
      BY <1>2, <3>1 DEF Releasing
    <3> QED
      BY <3>1, <3>2 DEF Owner
  <2> QED
    BY <2>1, <2>2
<1> QED
  BY <1>1, <1>2, <1>3, <1>4, NoChange DEF Woken

LEMMA RelockSimulates ==
  ASSUME IInv, NEW t \in Threads, Relock(t)
  PROVE  Abstract!Return(t)
<1>0. PICK c \in Conds : c = on[t]
  BY DEF Relock, At, IInv, CallInv, Using
<1>1. /\ pc[t] = "relock" /\ pc'[t] = "out" /\ on'[t] = None /\ UNCHANGED <<event, TLSKey>>
      /\ \A s \in Threads : s # t => pc'[s] = pc[s] /\ on'[s] = on[s]
      /\ owner[MutexOf[c]] = None /\ MutexOf[c] \in Mutexes
      /\ owner' = [owner EXCEPT ![MutexOf[c]] = t]
  BY WinCondAssumption, <1>0 DEF Relock, At, IInv, Types, keyVars
<1>2. Woken[t] = c /\ c # None
  BY WinCondAssumption, <1>0, <1>1 DEF Woken, IsWoken
<1>3. ~Releasing(MutexOf[c]) /\ Owner[MutexOf[c]] = None
  BY WinCondAssumption, <1>1, NotReleasing
<1>4. Owner' = [Owner EXCEPT ![MutexOf[c]] = t]
  <2>1. ASSUME NEW m \in Mutexes PROVE Releasing(m)' <=> Releasing(m)
    BY <1>1 DEF Releasing
  <2> QED
    BY <1>1, <1>3, <2>1 DEF Owner, IInv, Types
<1>5. Woken' = [Woken EXCEPT ![t] = None]
  <2>1. ASSUME NEW s \in Threads, s # t PROVE IsWoken(s)' <=> IsWoken(s)
    BY <1>1, <2>1 DEF IsWoken, Set
  <2>2. ~IsWoken(t)'
    BY <1>1 DEF IsWoken, Sleeping
  <2> QED
    BY <1>1, <2>1, <2>2 DEF Woken
<1>6. Waiting' = Waiting
  BY RelockInv DEF Waiting
<1> QED
  BY <1>2, <1>3, <1>4, <1>5, <1>6, AbstractSteps

LEMMA SignalSimulates ==
  ASSUME IInv, NEW t \in Threads, NEW c \in Conds, SetFirstEvent(t, c)
  PROVE  Abstract!Signal(t, c)
<1>1. /\ pc[t] = "out" /\ pc'[t] = "remove" /\ UNCHANGED owner
      /\ owner[MutexOf[c]] = t /\ MutexOf[c] \in Mutexes
      /\ \A s \in Threads : s # t => pc'[s] = pc[s] /\ on'[s] = on[s]
  BY WinCondAssumption DEF SetFirstEvent, At, IInv, Types, mutexVars
<1>2. PICK f \in Asleep(c) :
        /\ pc'[f] = pc[f] /\ on'[f] = c /\ Set(f)' /\ Asleep(c)' = Asleep(c) \ {f}
        /\ \A s \in Threads \ {f} : (Set(s)' <=> Set(s))
  BY SetFirstInv
<1>3. Abstract!Awake(t)
  BY <1>1, OthersAwake
<1>4. Owner[MutexOf[c]] = t /\ Owner' = Owner
  <2>1. Owner[MutexOf[c]] = t
    BY <1>1, NotReleasing
  <2>2. ASSUME NEW m \in Mutexes PROVE Releasing(m)' <=> Releasing(m)
    BY <1>1 DEF Releasing
  <2> QED
    BY <1>1, <2>1, <2>2 DEF Owner
<1>5. f \in Waiting[c] /\ Waiting' = [Waiting EXCEPT ![c] = @ \ {f}]
  <2>1. \A d \in Conds : d # c => Asleep(d)' = Asleep(d)
    BY SetFirstInv
  <2> QED
    BY <1>2, <2>1 DEF Waiting
<1>6. Woken' = [Woken EXCEPT ![f] = c]
  <2>1. f \in Threads /\ pc[f] \in Sleeping /\ IsWoken(f)'
    BY <1>2 DEF Asleep, Sleeping, IsWoken
  <2>2. ~IsWoken(t) /\ ~IsWoken(t)'
    BY <1>1 DEF IsWoken, Sleeping
  <2>3. ASSUME NEW s \in Threads, s # t, s # f PROVE IsWoken(s)' <=> IsWoken(s)
    BY <1>1, <1>2, <2>3 DEF IsWoken
  <2>4. Woken'[f] = c
    BY <1>2, <2>1 DEF Woken
  <2>5. ASSUME NEW s \in Threads, s # f PROVE Woken'[s] = Woken[s]
    BY <1>1, <2>2, <2>3, <2>5 DEF Woken
  <2> QED
    BY <2>1, <2>4, <2>5 DEF Woken
<1> QED
  BY <1>3, <1>4, <1>5, <1>6, AbstractSteps

\* The events and lists of the Windows build are condition variables: to wait is to
\* give up the mutex and fall asleep in one step, a signal wakes one sleeper if
\* there is one, and nobody else wakes.
THEOREM Refinement == Spec => ImplementsCondVar
<1>1. Init => Abstract!Init
  BY InitSimulates
<1>2. IInv /\ [Next]_vars => [StepOfCondVar]_vars
  <2> SUFFICES ASSUME IInv, Next, ~UNCHANGED vars PROVE StepOfCondVar
    BY DEF StepOfCondVar
  <2>1. ASSUME NEW t \in Threads, NEW m \in Mutexes, Lock(t, m) \/ Unlock(t, m)
        PROVE  Abstract!Next
    BY <2>1, LockSimulates DEF Abstract!Next
  <2>2. ASSUME NEW t \in Threads, InsertWaiter(t) PROVE Abstract!Next
    BY <2>2, InsertSimulates DEF Abstract!Next
  <2>3. ASSUME NEW t \in Threads, Relock(t) PROVE Abstract!Next
    BY <2>3, RelockSimulates DEF Abstract!Next
  <2>4. ASSUME NEW t \in Threads, NEW c \in Conds, SetFirstEvent(t, c) PROVE Abstract!Next
    BY <2>4, SignalSimulates DEF Abstract!Next
  <2>5. ASSUME NEW t \in Threads, ReleaseMutex(t) \/ PassEvent(t) PROVE UNCHANGED Abstract!vars
    BY <2>5, WaitingStutter
  <2>6. ASSUME NEW t \in Threads,
               \/ KeyStep(t) \/ UnlinkFirst(t)
               \/ \E c \in Conds : BeginWait(t, c) \/ DestroyCond(t, c)
        PROVE  UNCHANGED Abstract!vars
    BY <2>6, StutterSteps
  <2>7. Abstract!Next \/ UNCHANGED Abstract!vars
    BY <2>1, <2>2, <2>3, <2>4, <2>5, <2>6 DEF Next, KeyStep
  <2> QED
    BY <2>7 DEF StepOfCondVar
<1>3. Spec => []IInv
  BY Invariance
<1> QED
  BY <1>1, <1>2, <1>3, PTL DEF Spec, ImplementsCondVar
==============================================================================
