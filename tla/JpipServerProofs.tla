--------------------------- MODULE JpipServerProofs ---------------------------
(***************************************************************************)
(* Proofs about JpipServer, for any files, view-windows and bounds and any *)
(* sequence of requests: the references are counted, the open channels     *)
(* found, and the client gets everything once.  First the invariant, then  *)
(* what the lists and the cache models do, then what each action keeps.    *)
(***************************************************************************)
EXTENDS JpipServer, FiniteSetTheorems, SequenceTheorems, TLAPS

(* A list holds nothing twice, and `last` is its last element: this is why *)
(* AddLast reaches it.                                                     *)
List == [seq : Seq(Nat), last : Nat \cup {Nil}]
GoodList(l) ==
  /\ l \in List
  /\ \A i, j \in DOMAIN l.seq : l.seq[i] = l.seq[j] => i = j
  /\ l.seq # <<>> => l.last = l.seq[Len(l.seq)]

(* A session, and the lists of the sessions and of what is in them.        *)
Session == [channels : List, models : List]
Channels(s) == ToSet(sessions[s].channels.seq)

ListsInv ==
  /\ DOMAIN sessions \subseteq Nat /\ IsFiniteSet(DOMAIN sessions)
  /\ GoodList(sessionlist) /\ ToSet(sessionlist.seq) = DOMAIN sessions
  /\ \A s \in DOMAIN sessions :
       /\ sessions[s] \in Session
       /\ GoodList(sessions[s].channels) /\ GoodList(sessions[s].models)

(* A channel is listed in the session it was opened in, with one of its    *)
(* cache models.                                                           *)
ChannelsInv ==
  /\ DOMAIN cachemodel \subseteq Nat /\ IsFiniteSet(DOMAIN cachemodel)
  /\ DOMAIN open = DOMAIN cachemodel
  /\ \A c \in DOMAIN open :
       open[c] \in DOMAIN sessions /\ cachemodel[c] \in SessionModels(open[c])
  /\ \A s \in DOMAIN sessions : Channels(s) = {c \in DOMAIN open : open[c] = s}

(* A cache model: of each data-bin the first elements have been sent.      *)
FitModel(m) ==
  /\ m = [target |-> m.target, jppstream |-> m.jppstream, sent |-> m.sent]
  /\ m.target \in DOMAIN Files /\ m.jppstream \in BOOLEAN
  /\ m.sent = [b \in Bins(m.target, m.jppstream) |-> m.sent[b]]
  /\ \A b \in Bins(m.target, m.jppstream) :
       \E n \in 0..Elements(m.target, b) : m.sent[b] = 1..n

(* A cache model is the queue's or in one session, which has one for each  *)
(* target.                                                                 *)
ModelsInv ==
  /\ DOMAIN models \subseteq Nat /\ IsFiniteSet(DOMAIN models)
  /\ \A m \in DOMAIN models : FitModel(models[m])
  /\ Queued \subseteq DOMAIN models
  /\ \A s \in DOMAIN sessions : SessionModels(s) \subseteq DOMAIN models \ Queued
  /\ \A m \in DOMAIN models \ Queued : \E s \in DOMAIN sessions : m \in SessionModels(s)
  /\ \A s1, s2 \in DOMAIN sessions :
       SessionModels(s1) \cap SessionModels(s2) # {} => s1 = s2
  /\ \A s \in DOMAIN sessions : \A m1, m2 \in SessionModels(s) :
       models[m1].target = models[m2].target => m1 = m2

(* The cache models of a target, which num_of_use counts.                  *)
Of(t) == {m \in DOMAIN models : models[m].target = t}
UsesInv ==
  /\ DOMAIN uses \subseteq DOMAIN Files
  /\ \A m \in DOMAIN models : models[m].target \in DOMAIN uses
  /\ \A t \in DOMAIN uses : uses[t] = Cardinality(Of(t))

(* What is marked as sent is what the answers held and what is queued.     *)
ClientInv ==
  \A s \in DOMAIN sessions : \A m \in SessionModels(s) :
    /\ <<s, models[m].target>> \in DOMAIN client
    /\ Has(s, m) = [b \in DOMAIN models[m].sent |-> Has(s, m)[b]]
    /\ \A b \in DOMAIN models[m].sent : models[m].sent[b] = Has(s, m)[b] \cup Pending(m, b)

(* There is a queue only while a request is answered; of one that failed it*)
(* is empty, so nothing is marked that the client does not get.            *)
QueueInv ==
  /\ msgqueue # Nil =>
       /\ part \in {"respond", "failed"} /\ msgqueue.stateless \in BOOLEAN
       /\ part = "failed" => msgqueue.messages = {}
  /\ Served => cursession \in DOMAIN sessions /\ msgqueue.model \in SessionModels(cursession)
  /\ NothingTwice

(* What each part of a request finds from the parts before it.             *)
Query ==
  [target : Names \cup {Nil}, cid : Nat \cup {Nil}, cnew : BOOLEAN, jpp : BOOLEAN,
   all : BOOLEAN, cclose : SUBSET Nat, view : Views \cup {Nil}, box : BOOLEAN]
States ==
  {"idle", "open", "close", "closing", "stream", "respond", "failed", "terminated", "crashed"}
OfSession == curchannel \in DOMAIN open /\ open[curchannel] = cursession
CallInv ==
  /\ query \in Query /\ part \in States
  /\ part \in {"open", "stream"} =>
       /\ target # Nil => target \in DOMAIN uses
       /\ cursession # Nil => cursession \in DOMAIN sessions
       /\ cursession = Nil => target # Nil
  /\ part = "open" =>
       /\ ~query.all /\ query.cclose = {}
       /\ cursession # Nil /\ target = Nil => OfSession
  /\ part = "close" =>
       /\ cursession # Nil => cursession \in DOMAIN sessions
       /\ ~query.all => query.cclose # {} /\ query.cclose \subseteq DOMAIN open
  /\ part = "closing" =>
       /\ cursession \in DOMAIN sessions
       /\ \A c \in ToClose : c \in DOMAIN open /\ open[c] = cursession
  /\ part = "stream" => query.view \in Views /\ (cursession # Nil => OfSession)

(* The inductive invariant.                                                *)
IInv ==
  ListsInv /\ ChannelsInv /\ ModelsInv /\ UsesInv /\ ClientInv /\ QueueInv /\ CallInv

(* What becomes of the channel that the answer reads: it is the request's, *)
(* and only its own closing takes it away.                                 *)
HeldInv ==
  /\ part \in {"close", "stream"} /\ channel # Nil => channel \in DOMAIN open
  /\ part = "close" => IF channel # Nil THEN open[channel] = cursession ELSE cursession = Nil
  /\ part = "stream" => ~query.all /\ query.cclose = {}
  /\ part = "closing" =>
       ~query.all /\ (channel # Nil => channel \in DOMAIN open \cup query.cclose)
  /\ ChannelKept

------------------------------------------------------------------------------
\* The list of nothing.
LEMMA EmptyListGood == GoodList(EmptyList) /\ ToSet(EmptyList.seq) = {}
BY DEF EmptyList, GoodList, List, ToSet

\* Where an element of a list is.
LEMMA PositionGives ==
  ASSUME NEW l, GoodList(l), NEW x \in ToSet(l.seq)
  PROVE  Position(l, x) \in 1..Len(l.seq) /\ l.seq[Position(l, x)] = x
<1>1. \E i \in DOMAIN l.seq : l.seq[i] = x
  BY DEF ToSet
<1>2. Position(l, x) \in DOMAIN l.seq /\ l.seq[Position(l, x)] = x
  BY <1>1 DEF Position
<1>3. DOMAIN l.seq = 1..Len(l.seq)
  BY DEF GoodList, List
<1> QED
  BY <1>2, <1>3

\* Something new is added at the end.
LEMMA AddLastGives ==
  ASSUME NEW l, GoodList(l), NEW x \in Nat, x \notin ToSet(l.seq)
  PROVE  GoodList(AddLast(l, x)) /\ ToSet(AddLast(l, x).seq) = ToSet(l.seq) \cup {x}
<1>1. PICK q : q = l.seq
  OBVIOUS
<1>2. /\ q \in Seq(Nat) /\ DOMAIN q = 1..Len(q) /\ Len(q) \in Nat
      /\ \A i, j \in 1..Len(q) : q[i] = q[j] => i = j
      /\ \A i \in 1..Len(q) : q[i] # x
  BY <1>1 DEF GoodList, List, ToSet
<1>3. AddLast(l, x) = [seq |-> Append(q, x), last |-> x]
  <2>1. CASE q = <<>>
    <3>1. Append(q, x) = <<x>>
      BY <2>1
    <3> QED
      BY <1>1, <2>1, <3>1 DEF AddLast
  <2>2. CASE q # <<>>
    <3>1. Len(q) \in 1..Len(q)
      BY <1>2, <2>2
    <3>2. l.last = q[Len(q)] /\ Reaches(l, l.last)
      BY <1>1, <1>2, <2>2, <3>1 DEF GoodList, Reaches, ToSet
    <3>3. Position(l, l.last) = Len(q)
      <4>1. Position(l, l.last) \in 1..Len(q) /\ q[Position(l, l.last)] = l.last
        BY <1>1, <3>2, PositionGives DEF Reaches
      <4> QED
        BY <1>2, <3>1, <3>2, <4>1
    <3>4. SubSeq(q, 1, Len(q)) = q
      BY <1>2
    <3> QED
      BY <1>1, <2>2, <3>2, <3>3, <3>4 DEF AddLast
  <2> QED
    BY <2>1, <2>2
<1>4. PICK r : r = Append(q, x)
  OBVIOUS
<1>5. /\ r \in Seq(Nat) /\ DOMAIN r = 1..(Len(q) + 1) /\ Len(r) = Len(q) + 1
      /\ \A i \in 1..Len(q) : r[i] = q[i]
      /\ r[Len(q) + 1] = x
  BY <1>2, <1>4
<1>6. \A i, j \in 1..(Len(q) + 1) : r[i] = r[j] => i = j
  <2>1. \A i \in 1..(Len(q) + 1) : i \in 1..Len(q) \/ i = Len(q) + 1
    BY <1>2
  <2> QED
    BY <1>2, <1>5, <2>1
<1>7. {r[i] : i \in 1..(Len(q) + 1)} = {q[i] : i \in 1..Len(q)} \cup {x}
  <2>1. \A i \in 1..(Len(q) + 1) : i \in 1..Len(q) \/ i = Len(q) + 1
    BY <1>2
  <2>2. \A i \in 1..Len(q) : i \in 1..(Len(q) + 1)
    BY <1>2
  <2>3. Len(q) + 1 \in 1..(Len(q) + 1)
    BY <1>2
  <2> QED
    BY <1>5, <2>1, <2>2, <2>3
<1> QED
  BY <1>1, <1>2, <1>3, <1>4, <1>5, <1>6, <1>7 DEF GoodList, List, ToSet

\* An element is taken off.
LEMMA WithoutGives ==
  ASSUME NEW l, GoodList(l), NEW x \in ToSet(l.seq)
  PROVE  GoodList(Without(l, x)) /\ ToSet(Without(l, x).seq) = ToSet(l.seq) \ {x}
<1>1. PICK q : q = l.seq
  OBVIOUS
<1>2. PICK p : p = Position(l, x)
  OBVIOUS
<1>3. /\ q \in Seq(Nat) /\ DOMAIN q = 1..Len(q) /\ Len(q) \in Nat
      /\ \A i, j \in 1..Len(q) : q[i] = q[j] => i = j
      /\ l.last \in Nat \cup {Nil}
      /\ q # <<>> => l.last = q[Len(q)]
  BY <1>1 DEF GoodList, List
<1>4. p \in 1..Len(q) /\ q[p] = x /\ q # <<>>
  BY <1>1, <1>2, <1>3, PositionGives
<1>5. PICK r : r = RemoveAt(q, p)
  OBVIOUS
<1>6. /\ r \in Seq(Nat) /\ DOMAIN r = 1..(Len(q) - 1) /\ Len(r) = Len(q) - 1
      /\ \A i \in 1..(Len(q) - 1) : r[i] = IF i < p THEN q[i] ELSE q[i + 1]
  <2>1. PICK a : a = SubSeq(q, 1, p - 1)
    OBVIOUS
  <2>2. PICK b : b = SubSeq(q, p + 1, Len(q))
    OBVIOUS
  <2>3. /\ a \in Seq(Nat) /\ Len(a) = p - 1 /\ \A i \in 1..(p - 1) : a[i] = q[i]
    BY <1>3, <1>4, <2>1
  <2>4. /\ b \in Seq(Nat) /\ Len(b) = Len(q) - p /\ \A i \in 1..(Len(q) - p) : b[i] = q[i + p]
    <3>1. CASE p = Len(q)
      <4>1. b = <<>>
        <5>1. p + 1 \in Int /\ Len(q) \in Int /\ Len(q) < p + 1
          BY <1>3, <1>4, <3>1
        <5> QED
          BY <2>2, <5>1, SubSeqEmpty
      <4>2. Len(q) - p = 0 /\ 1..(Len(q) - p) = {}
        BY <1>3, <1>4, <3>1
      <4> QED
        BY <4>1, <4>2
    <3>2. CASE p # Len(q)
      <4>1. p + 1 \in 1..Len(q)
        <5>1. PICK n \in Nat : n = Len(q)
          BY <1>3
        <5>2. p \in 1..n /\ p # n
          BY <1>4, <3>2, <5>1
        <5>3. p + 1 \in 1..n
          BY <5>1, <5>2
        <5> QED
          BY <5>1, <5>3
      <4>2. b \in Seq(Nat) /\ Len(b) = Len(q) - (p + 1) + 1
        BY <1>3, <1>4, <2>2, <4>1
      <4>3. \A i \in 1..(Len(q) - (p + 1) + 1) : b[i] = q[(p + 1) + i - 1]
        BY <1>3, <1>4, <2>2, <4>1
      <4>4. Len(q) - (p + 1) + 1 = Len(q) - p
        BY <1>3, <1>4
      <4>5. \A i \in 1..(Len(q) - p) : b[i] = q[(p + 1) + i - 1] /\ (p + 1) + i - 1 = i + p
        BY <1>3, <1>4, <4>3, <4>4
      <4> QED
        BY <4>2, <4>4, <4>5
    <3> QED
      BY <3>1, <3>2
  <2>5. r = a \o b
    BY <1>5, <2>1, <2>2 DEF RemoveAt
  <2>6. r \in Seq(Nat) /\ Len(r) = Len(q) - 1 /\ DOMAIN r = 1..(Len(q) - 1)
    <3>1. r \in Seq(Nat) /\ Len(r) = Len(a) + Len(b)
      BY <2>3, <2>4, <2>5, ConcatProperties
    <3>2. Len(a) + Len(b) = Len(q) - 1
      BY <1>3, <1>4, <2>3, <2>4
    <3> QED
      BY <3>1, <3>2
  <2>7. ASSUME NEW i \in 1..(Len(q) - 1) PROVE r[i] = IF i < p THEN q[i] ELSE q[i + 1]
    <3>3. i \in 1..(Len(a) + Len(b))
      BY <1>3, <1>4, <2>3, <2>4, <2>7
    <3>4. r[i] = IF i <= Len(a) THEN a[i] ELSE b[i - Len(a)]
      BY <2>3, <2>4, <2>5, <3>3, ConcatProperties
    <3>1. CASE i < p
      <4>1. i \in 1..(p - 1) /\ i <= Len(a)
        BY <1>3, <1>4, <2>3, <2>7, <3>1
      <4> QED
        BY <2>3, <3>1, <3>4, <4>1
    <3>2. CASE ~(i < p)
      <4>1. i - (p - 1) \in 1..(Len(q) - p) /\ (i - (p - 1)) + p = i + 1
        BY <1>3, <1>4, <2>7, <3>2
      <4>2. r[i] = b[i - (p - 1)]
        <5>1. ~(i <= Len(a)) /\ Len(a) = p - 1
          BY <1>3, <1>4, <2>3, <2>7, <3>2
        <5> QED
          BY <3>4, <5>1
      <4> QED
        BY <2>4, <3>2, <4>1, <4>2
    <3> QED
      BY <3>1, <3>2
  <2> QED
    BY <2>6, <2>7
<1>7. \A i, j \in 1..(Len(q) - 1) : r[i] = r[j] => i = j
  <2>1. SUFFICES ASSUME NEW i \in 1..(Len(q) - 1), NEW j \in 1..(Len(q) - 1), r[i] = r[j]
                 PROVE  i = j
    OBVIOUS
  <2>2. i \in 1..Len(q) /\ j \in 1..Len(q) /\ i + 1 \in 1..Len(q) /\ j + 1 \in 1..Len(q)
    BY <1>3, <2>1
  <2>3. (IF i < p THEN q[i] ELSE q[i + 1]) = (IF j < p THEN q[j] ELSE q[j + 1])
    BY <1>6, <2>1
  <2>4. (IF i < p THEN i ELSE i + 1) = (IF j < p THEN j ELSE j + 1)
    BY <1>3, <2>2, <2>3
  <2> QED
    BY <1>4, <2>1, <2>4
<1>8. {r[i] : i \in 1..(Len(q) - 1)} = {q[i] : i \in 1..Len(q)} \ {x}
  <2>1. ASSUME NEW i \in 1..(Len(q) - 1) PROVE r[i] \in {q[j] : j \in 1..Len(q)} \ {x}
    <3>1. i \in 1..Len(q) /\ i + 1 \in 1..Len(q)
      BY <1>3, <2>1
    <3>2. PICK k \in 1..Len(q) : k = IF i < p THEN i ELSE i + 1
      BY <3>1
    <3>3. k # p /\ r[i] = q[k]
      BY <1>4, <1>6, <2>1, <3>2
    <3> QED
      BY <1>3, <1>4, <3>2, <3>3
  <2>2. ASSUME NEW k \in 1..Len(q), q[k] # x PROVE q[k] \in {r[i] : i \in 1..(Len(q) - 1)}
    <3>1. k # p
      BY <1>4, <2>2
    <3>2. PICK i : i = IF k < p THEN k ELSE k - 1
      OBVIOUS
    <3>3. i \in 1..(Len(q) - 1) /\ (IF i < p THEN i ELSE i + 1) = k
      BY <1>3, <1>4, <2>2, <3>1, <3>2
    <3>4. r[i] = q[k]
      BY <1>6, <3>3
    <3> QED
      BY <3>3, <3>4
  <2> QED
    BY <2>1, <2>2
<1>9. PICK t : t = Without(l, x).last
  OBVIOUS
<1>10. t = IF x # q[1] /\ x = l.last THEN q[p - 1] ELSE l.last
  BY <1>1, <1>2, <1>9 DEF Without
<1>11. Without(l, x) = [seq |-> r, last |-> t]
  BY <1>1, <1>2, <1>5, <1>9 DEF Without
<1>12. t \in Nat \cup {Nil} /\ (r # <<>> => t = r[Len(r)])
  <2>1. CASE x # q[1] /\ x = l.last
    <3>1. p = Len(q) /\ p # 1
      <4>1. Len(q) \in 1..Len(q) /\ q[Len(q)] = x
        BY <1>3, <1>4, <2>1
      <4> QED
        BY <1>3, <1>4, <2>1, <4>1
    <3>2. p - 1 \in 1..(Len(q) - 1) /\ p - 1 \in 1..Len(q) /\ p - 1 < p
      BY <1>3, <1>4, <3>1
    <3>3. r[p - 1] = q[p - 1] /\ Len(r) = p - 1 /\ q[p - 1] \in Nat
      BY <1>3, <1>6, <3>1, <3>2
    <3> QED
      BY <1>10, <2>1, <3>3
  <2>2. CASE ~(x # q[1] /\ x = l.last)
    <3>1. t = l.last
      BY <1>10, <2>2
    <3>2. ASSUME r # <<>> PROVE l.last = r[Len(r)]
      <4>1. Len(q) - 1 \in 1..(Len(q) - 1) /\ Len(q) > 1
        BY <1>3, <1>4, <1>6, <3>2
      <4>2. p # Len(q)
        <5>1. 1 \in 1..Len(q) /\ Len(q) \in 1..Len(q) /\ 1 # Len(q)
          BY <1>3, <4>1
        <5>2. q[1] # q[Len(q)]
          BY <1>3, <5>1
        <5> QED
          BY <1>3, <1>4, <2>2, <5>2
      <4>3. ~(Len(q) - 1 < p)
        <5>1. PICK n \in Nat : n = Len(q)
          BY <1>3
        <5>2. p \in 1..n /\ p # n
          BY <1>4, <4>2, <5>1
        <5>3. ~(n - 1 < p)
          BY <5>1, <5>2
        <5> QED
          BY <5>1, <5>3
      <4>4. r[Len(q) - 1] = q[(Len(q) - 1) + 1] /\ (Len(q) - 1) + 1 = Len(q)
        BY <1>3, <1>6, <4>1, <4>3
      <4> QED
        BY <1>3, <1>4, <1>6, <4>4
    <3> QED
      BY <1>3, <3>1, <3>2
  <2> QED
    BY <2>1, <2>2
<1>13. ToSet(Without(l, x).seq) = ToSet(l.seq) \ {x}
  <2>1. ToSet(r) = {r[i] : i \in 1..(Len(q) - 1)} /\ ToSet(q) = {q[i] : i \in 1..Len(q)}
    BY <1>3, <1>6 DEF ToSet
  <2>2. Without(l, x).seq = r
    BY <1>11
  <2> QED
    BY <1>1, <1>8, <2>1, <2>2
<1>14. GoodList([seq |-> r, last |-> t])
  BY <1>6, <1>7, <1>12 DEF GoodList, List
<1> QED
  BY <1>11, <1>13, <1>14

------------------------------------------------------------------------------
\* A number that is not in use.
LEMMA FreshGives ==
  ASSUME NEW S, S \subseteq Nat, IsFiniteSet(S)
  PROVE  Fresh(S) \in Nat /\ Fresh(S) \notin S
<1>1. PICK n : n = Cardinality(S)
  OBVIOUS
<1>2. n \in Nat
  BY <1>1, FS_CardinalityType
<1>3. IsFiniteSet(1..(n + 1)) /\ Cardinality(1..(n + 1)) = n + 1
  <2>1. 1 \in Int /\ n + 1 \in Int /\ 1 <= n + 1 /\ (n + 1) - 1 + 1 = n + 1
    BY <1>2
  <2> QED
    BY <2>1, FS_Interval
<1>4. ~(1..(n + 1) \subseteq S)
  <2>1. SUFFICES ASSUME 1..(n + 1) \subseteq S PROVE FALSE
    OBVIOUS
  <2>2. n + 1 <= n
    BY <2>1, <1>1, <1>2, <1>3, FS_Subset
  <2> QED
    BY <2>2, <1>2
<1>5. Fresh(S) \in 1..(n + 1) /\ Fresh(S) \notin S
  BY <1>1, <1>4 DEF Fresh
<1> QED
  BY <1>2, <1>5

\* A channel that is open is found in its session.
LEMMA SessionOfGives ==
  ASSUME ListsInv, ChannelsInv, NEW c \in DOMAIN open
  PROVE  SessionOf(c) = open[c] /\ open[c] \in DOMAIN sessions
<1>1. open[c] \in DOMAIN sessions /\ ToSet(sessionlist.seq) = DOMAIN sessions
  BY DEF ListsInv, ChannelsInv
<1>2. \A s \in DOMAIN sessions : Reaches(sessions[s].channels, c) <=> open[c] = s
  BY DEF ChannelsInv, Channels, Reaches
<1>3. {s \in ToSet(sessionlist.seq) : Reaches(sessions[s].channels, c)} = {open[c]}
  BY <1>1, <1>2
<1> QED
  BY <1>1, <1>3 DEF SessionOf

\* What a view-window asks for is not more than there is.
LEMMA WantedFits ==
  ASSUME FilesFit, NEW name \in DOMAIN Files, NEW jpp \in BOOLEAN, NEW view \in Views,
         NEW b \in Bins(name, jpp)
  PROVE  /\ Elements(name, b) \in Nat
         /\ Wanted(name, jpp, view, b) \in Int
         /\ Wanted(name, jpp, view, b) <= Elements(name, b)
<1>1. /\ Files[name].res \in Nat \ {0} /\ Files[name].layers \in Nat \ {0}
      /\ view.level \in Nat /\ view.layers \in Int
  BY DEF FilesFit
<1>2. CASE b = Main
  BY <1>2 DEF Main, Bin, Elements, Wanted
<1>3. CASE \E t \in Files[name].tiles : b = Bin("head", t, 0)
  BY <1>3 DEF Main, Bin, Elements, Wanted
<1>4. CASE \E t \in Files[name].tiles : \E r \in 0..(Files[name].res - 1) :
             b = Bin("precinct", t, r)
  <2>1. PICK t \in Files[name].tiles, r \in 0..(Files[name].res - 1) : b = Bin("precinct", t, r)
    BY <1>4
  <2>2. b # Main /\ b[1] = "precinct" /\ b[2] = t /\ b[3] = r
    BY <2>1 DEF Main, Bin
  <2>3. Elements(name, b) = Files[name].layers
    BY <2>2 DEF Elements
  <2>4. Wanted(name, jpp, view, b) \in
          {0, Files[name].layers,
           IF view.layers < 0 \/ view.layers > Files[name].layers
             THEN Files[name].layers ELSE view.layers}
    BY <2>2 DEF Wanted
  <2> QED
    BY <1>1, <2>3, <2>4
<1>5. CASE \E t \in Files[name].tiles : b = Bin("tile", t, 0)
  <2>1. PICK t \in Files[name].tiles : b = Bin("tile", t, 0)
    BY <1>5
  <2>2. b # Main /\ b[1] = "tile" /\ b[2] = t
    BY <2>1 DEF Main, Bin
  <2>3. Elements(name, b) = Files[name].res
    BY <2>2 DEF Elements
  <2>4. Wanted(name, jpp, view, b) \in {0, Files[name].res - view.level}
    BY <2>2 DEF Wanted
  <2> QED
    BY <1>1, <2>3, <2>4
<1> QED
  BY <1>2, <1>3, <1>4, <1>5 DEF Bins

\* A new cache model says that nothing has been sent.
LEMMA NewModelFits ==
  ASSUME FilesFit, NEW name \in DOMAIN Files, NEW jpp \in BOOLEAN
  PROVE  /\ FitModel(NewModel(name, jpp)) /\ NewModel(name, jpp).target = name
         /\ \A b \in DOMAIN NewModel(name, jpp).sent : NewModel(name, jpp).sent[b] = {}
<1>1. PICK n : n = NewModel(name, jpp)
  OBVIOUS
<1>2. PICK j : j = (jpp \/ ~Files[name].jpt)
  OBVIOUS
<1>3. Files[name].jpt \in BOOLEAN
  BY DEF FilesFit
<1>4. j \in BOOLEAN
  BY <1>2
<1>5. n = [target |-> name, jppstream |-> j, sent |-> [b \in Bins(name, j) |-> {}]]
  BY <1>1, <1>2 DEF NewModel
<1>6. n.target = name /\ n.jppstream = j /\ n.sent = [b \in Bins(name, j) |-> {}]
  BY <1>5
<1>7. ASSUME NEW b \in Bins(name, j)
      PROVE  \E k \in 0..Elements(name, b) : n.sent[b] = 1..k
  <2>1. Elements(name, b) \in Nat
    <3>1. Files[name].res \in Nat /\ Files[name].layers \in Nat
      BY DEF FilesFit
    <3> QED
      BY <1>4, <1>7, <3>1 DEF Elements, Bins, Bin, Main
  <2>2. 0 \in 0..Elements(name, b) /\ 1..0 = {} /\ n.sent[b] = {}
    BY <1>6, <2>1
  <2> QED
    BY <2>2
<1>8. FitModel(n)
  BY <1>4, <1>5, <1>6, <1>7 DEF FitModel
<1> QED
  BY <1>1, <1>6, <1>8

\* What is queued completes what has been sent, and is marked as sent.
LEMMA MarkedGives ==
  ASSUME FilesFit, NEW m, FitModel(m), query.view \in Views
  PROVE  /\ FitModel(Marked(m)) /\ Marked(m).target = m.target
         /\ Marked(m).jppstream = m.jppstream
         /\ DOMAIN Marked(m).sent = DOMAIN m.sent
         /\ \A b \in DOMAIN m.sent :
              /\ Marked(m).sent[b] = m.sent[b] \cup Missing(m, query.view, b)
              /\ 1..Wanted(m.target, m.jppstream, query.view, b) \subseteq Marked(m).sent[b]
<1>1. PICK t \in DOMAIN Files, j \in BOOLEAN : t = m.target /\ j = m.jppstream
  BY DEF FitModel
<1>2. m = [target |-> t, jppstream |-> j, sent |-> m.sent] /\ DOMAIN m.sent = Bins(t, j)
  BY <1>1 DEF FitModel
<1>3. PICK n : n = Marked(m)
  OBVIOUS
<1>4. PICK f : f = [b \in Bins(t, j) |-> m.sent[b] \cup Missing(m, query.view, b)]
  OBVIOUS
<1>5. n = [target |-> t, jppstream |-> j, sent |-> f]
  <2>1. n = [m EXCEPT !.sent = f]
    BY <1>2, <1>3, <1>4 DEF Marked
  <2> QED
    BY <1>2, <2>1
<1>6. n.target = t /\ n.jppstream = j /\ n.sent = f /\ DOMAIN f = Bins(t, j)
  BY <1>4, <1>5
<1>7. ASSUME NEW b \in Bins(t, j)
      PROVE  /\ f[b] = m.sent[b] \cup Missing(m, query.view, b)
             /\ 1..Wanted(t, j, query.view, b) \subseteq f[b]
             /\ \E k \in 0..Elements(t, b) : f[b] = 1..k
  <2>1. PICK w \in Int, e \in Nat : w = Wanted(t, j, query.view, b) /\ e = Elements(t, b) /\ w <= e
    BY <1>1, <1>7, WantedFits
  <2>2. PICK k \in 0..e : m.sent[b] = 1..k
    BY <1>1, <1>7, <2>1 DEF FitModel
  <2>3. Missing(m, query.view, b) = (1..w) \ (1..k)
    BY <1>1, <2>1, <2>2 DEF Missing
  <2>4. f[b] = m.sent[b] \cup Missing(m, query.view, b)
    BY <1>4, <1>7
  <2>5. f[b] = (1..k) \cup (1..w)
    BY <2>2, <2>3, <2>4
  <2>6. \E l \in 0..e : f[b] = 1..l
    <3>1. CASE w <= k
      <4>1. (1..k) \cup (1..w) = 1..k
        BY <3>1, <2>1, <2>2
      <4> QED
        BY <2>2, <2>5, <4>1
    <3>2. CASE ~(w <= k)
      <4>1. (1..k) \cup (1..w) = 1..w /\ w \in 0..e
        BY <3>2, <2>1, <2>2
      <4> QED
        BY <2>5, <4>1
    <3> QED
      BY <3>1, <3>2
  <2> QED
    BY <2>1, <2>4, <2>5, <2>6
<1>8. n.sent = [b \in Bins(t, j) |-> n.sent[b]]
  BY <1>4, <1>6
<1>9. FitModel(n)
  BY <1>5, <1>6, <1>7, <1>8 DEF FitModel
<1> QED
  BY <1>1, <1>2, <1>3, <1>6, <1>7, <1>9

------------------------------------------------------------------------------
\* What depends on the lists, the queue and the client only.
LEMMA ListsKept ==
  ListsInv /\ ChannelsInv /\ ModelsInv /\ ClientInv
  /\ UNCHANGED <<sessionlist, sessions, cachemodel, models, msgqueue, open, client>>
    => ListsInv' /\ ChannelsInv' /\ ModelsInv' /\ (Served' = Served => ClientInv')
<1>1. SUFFICES ASSUME ListsInv, ChannelsInv, ModelsInv, ClientInv,
               UNCHANGED <<sessionlist, sessions, cachemodel, models, msgqueue, open, client>>
      PROVE  ListsInv' /\ ChannelsInv' /\ ModelsInv' /\ (Served' = Served => ClientInv')
  OBVIOUS
<1>2. ListsInv'
  BY <1>1 DEF ListsInv
<1>3. ChannelsInv'
  BY <1>1 DEF ChannelsInv, Channels, SessionModels
<1>4. ModelsInv'
  BY <1>1 DEF ModelsInv, SessionModels, Queued
<1>5. Served' = Served => ClientInv'
  BY <1>1 DEF ClientInv, Has, Pending, SessionModels, Served
<1> QED
  BY <1>2, <1>3, <1>4, <1>5

\* With the queue gone nothing is being served.
LEMMA NothingServed == msgqueue' = Nil => ~Served' /\ NothingTwice' /\ QueueInv' /\ Queued' = {}
BY DEF QueueInv, Served, NothingTwice, Queued

\* The requests that a client makes.
LEMMA RequestsFit ==
  ASSUME FilesFit, ChannelsInv, NEW q \in Closing \cup Asking
  PROVE  /\ q \in Query /\ q.cid \in DOMAIN open \cup {Nil}
         /\ q.cclose \subseteq DOMAIN open
         /\ q.all \/ q.cclose # {} => ~q.cnew
         /\ ~q.all /\ q.cclose = {} => q.target # Nil \/ q.cid # Nil
<1>1. DOMAIN open \subseteq Nat /\ Nil \notin DOMAIN open
  BY DEF ChannelsInv, FilesFit
<1>2. CASE q \in Asking
  BY <1>1, <1>2 DEF Asking, Query, Cids
<1>3. CASE q \in Closing
  BY <1>1, <1>3 DEF Closing, Query, Cids
<1> QED
  BY <1>2, <1>3

\* A request that comes in.
LEMMA RequestKeeps == FilesFit /\ IInv /\ Request => IInv'
<1>1. SUFFICES ASSUME FilesFit, IInv, Request PROVE IInv'
  OBVIOUS
<1>2. PICK q \in Closing \cup Asking :
        /\ query' = q
        /\ uses' = IF q.target \in DOMAIN Files \ DOMAIN uses THEN With(uses, q.target, 0)
                                                             ELSE uses
        /\ target' = q.target
        /\ cursession' = IF q.cid # Nil THEN SessionOf(q.cid) ELSE Nil
        /\ curchannel' = q.cid
        /\ channel' = IF Identified(q) /\ Associated(q) THEN q.cid ELSE Nil
        /\ part' = IF Identified(q) /\ Associated(q) THEN Begin(q) ELSE "failed"
  BY <1>1 DEF Request
<1>3. /\ part = "idle"
      /\ UNCHANGED <<sessionlist, sessions, cachemodel, models, msgqueue, open, client>>
  BY <1>1 DEF Request
<1>4. ListsInv /\ ChannelsInv /\ ModelsInv /\ UsesInv /\ ClientInv /\ QueueInv
  BY <1>1 DEF IInv
<1>5. msgqueue' = Nil /\ msgqueue = Nil
  BY <1>3, <1>4 DEF QueueInv
<1>6. QueueInv' /\ Served' = Served
  BY <1>5, NothingServed DEF Served
<1>7. ListsInv' /\ ChannelsInv' /\ ModelsInv' /\ ClientInv'
  BY <1>3, <1>4, <1>6, ListsKept
<1>8. UsesInv' /\ (q.target \in DOMAIN Files => q.target \in DOMAIN uses')
  <2>1. \A t : Of(t)' = Of(t)
    BY <1>3 DEF Of
  <2>2. CASE q.target \in DOMAIN Files \ DOMAIN uses
    <3>1. /\ DOMAIN uses' = DOMAIN uses \cup {q.target} /\ uses'[q.target] = 0
          /\ \A t \in DOMAIN uses : uses'[t] = uses[t]
      BY <1>2, <2>2 DEF With
    <3>2. Of(q.target) = {}
      BY <1>4, <2>2 DEF UsesInv, Of
    <3>3. Cardinality(Of(q.target)) = 0
      BY <3>2, FS_EmptySet
    <3> QED
      BY <1>3, <1>4, <2>1, <2>2, <3>1, <3>3 DEF UsesInv
  <2>3. CASE q.target \notin DOMAIN Files \ DOMAIN uses
    BY <1>2, <1>3, <1>4, <2>1, <2>3 DEF UsesInv
  <2> QED
    BY <2>2, <2>3
<1>9. CallInv'
  <2>1. /\ q \in Query /\ q.cid \in DOMAIN open \cup {Nil}
        /\ q.cclose \subseteq DOMAIN open
        /\ q.all \/ q.cclose # {} => ~q.cnew
        /\ ~q.all /\ q.cclose = {} => q.target # Nil \/ q.cid # Nil
    BY <1>1, <1>4, RequestsFit
  <2>2. Nil \notin DOMAIN sessions
    BY <1>1, <1>4 DEF ListsInv, FilesFit
  <2>3. q.cid # Nil => /\ cursession' = open[q.cid] /\ cursession' \in DOMAIN sessions
                        /\ cursession' # Nil
    BY <1>2, <1>4, <2>1, <2>2, SessionOfGives
  <2>4. q.cid = Nil => cursession' = Nil
    BY <1>2
  <2>5. Identified(q) /\ q.target # Nil => target' \in DOMAIN uses'
    BY <1>2, <1>8 DEF Identified
  <2>6. CASE part' = "failed"
    BY <1>2, <2>1, <2>6 DEF CallInv, States
  <2>7. CASE part' # "failed"
    <3>1. Identified(q) /\ part' = Begin(q)
      BY <1>2, <2>7
    <3>2. CASE q.cnew
      <4>1. part' = "open" /\ ~q.all /\ q.cclose = {}
        BY <2>1, <3>1, <3>2 DEF Begin
      <4>2. cursession' # Nil /\ target' = Nil => OfSession'
        BY <1>2, <1>3, <2>1, <2>3, <2>4 DEF OfSession
      <4> QED
        BY <1>2, <1>3, <2>1, <2>3, <2>4, <2>5, <3>1, <4>1, <4>2 DEF CallInv, States
    <3>3. CASE ~q.cnew /\ (q.all \/ q.cclose # {})
      <4>1. part' = "close"
        BY <3>1, <3>3 DEF Begin, AfterOpen
      <4> QED
        BY <1>2, <1>3, <2>1, <2>3, <2>4, <3>3, <4>1 DEF CallInv, States
    <3>4. CASE ~q.cnew /\ ~(q.all \/ q.cclose # {}) /\ q.view # Nil
      <4>1. part' = "stream"
        BY <3>1, <3>4 DEF Begin, AfterOpen
      <4>2. q.view \in Views
        BY <2>1, <3>4 DEF Query
      <4>3. cursession' # Nil => OfSession'
        BY <1>2, <1>3, <2>1, <2>3, <2>4 DEF OfSession
      <4> QED
        BY <1>2, <1>3, <2>1, <2>3, <2>4, <2>5, <3>1, <3>4, <4>1, <4>2, <4>3 DEF CallInv, States
    <3>5. CASE ~q.cnew /\ ~(q.all \/ q.cclose # {}) /\ q.view = Nil
      <4>1. part' = "respond"
        BY <3>1, <3>5 DEF Begin, AfterOpen
      <4> QED
        BY <1>2, <2>1, <4>1 DEF CallInv, States
    <3> QED
      BY <2>1, <3>2, <3>3, <3>4, <3>5 DEF Query
  <2> QED
    BY <2>6, <2>7
<1> QED
  BY <1>6, <1>7, <1>8, <1>9 DEF IInv

------------------------------------------------------------------------------
\* Before data is queued there is no queue.
LEMMA NoQueueYet ==
  ASSUME QueueInv, part \in {"idle", "open", "close", "closing", "stream"}
  PROVE  msgqueue = Nil /\ ~Served /\ Queued = {}
BY DEF QueueInv, Served, Queued

\* The session in which a channel is opened: it has one channel more.
LEMMA OpenInGives ==
  ASSUME ListsInv, ChannelsInv, NEW s \in Nat, NEW list \in Session,
         GoodList(list.channels), GoodList(list.models), NEW m,
         GoodList(sessionlist'), ToSet(sessionlist'.seq) = DOMAIN sessions \cup {s},
         ToSet(list.channels.seq) = {c \in DOMAIN open : open[c] = s},
         s \in DOMAIN sessions => SessionModels(s) \subseteq ToSet(list.models.seq),
         m \in ToSet(list.models.seq), OpenIn(s, list, m)
  PROVE  /\ ListsInv' /\ ChannelsInv' /\ OfSession' /\ cursession' = s
         /\ DOMAIN sessions' = DOMAIN sessions \cup {s}
         /\ SessionModels(s)' = ToSet(list.models.seq)
         /\ \A r \in DOMAIN sessions : r # s => SessionModels(r)' = SessionModels(r)
<1>1. PICK c : c = Fresh(DOMAIN cachemodel)
  OBVIOUS
<1>2. /\ cachemodel' = With(cachemodel, c, m)
      /\ sessions' = With(sessions, s, [list EXCEPT !.channels = AddLast(@, c)])
      /\ open' = With(open, c, s) /\ cursession' = s /\ curchannel' = c
  BY <1>1 DEF OpenIn
<1>3. c \in Nat /\ c \notin DOMAIN cachemodel /\ c \notin DOMAIN open
  BY <1>1, FreshGives DEF ChannelsInv
<1>4. PICK a : a = AddLast(list.channels, c)
  OBVIOUS
<1>5. GoodList(a) /\ ToSet(a.seq) = {x \in DOMAIN open : open[x] = s} \cup {c}
  <2>1. c \notin ToSet(list.channels.seq)
    BY <1>3
  <2> QED
    BY <1>3, <1>4, <2>1, AddLastGives
<1>6. PICK e : e = [list EXCEPT !.channels = AddLast(@, c)]
  OBVIOUS
<1>7. e = [channels |-> a, models |-> list.models] /\ e \in Session
  BY <1>4, <1>5, <1>6 DEF Session, GoodList
<1>8. /\ DOMAIN sessions' = DOMAIN sessions \cup {s} /\ sessions'[s] = e
      /\ \A r \in DOMAIN sessions : r # s => sessions'[r] = sessions[r]
  BY <1>2, <1>6 DEF With
<1>9. /\ DOMAIN open' = DOMAIN open \cup {c} /\ open'[c] = s
      /\ \A x \in DOMAIN open : open'[x] = open[x]
  BY <1>2, <1>3 DEF With
<1>10. /\ DOMAIN cachemodel' = DOMAIN cachemodel \cup {c} /\ cachemodel'[c] = m
       /\ \A x \in DOMAIN cachemodel : cachemodel'[x] = cachemodel[x]
  BY <1>2, <1>3 DEF With
<1>11. /\ SessionModels(s)' = ToSet(list.models.seq)
       /\ \A r \in DOMAIN sessions : r # s => SessionModels(r)' = SessionModels(r)
  BY <1>7, <1>8 DEF SessionModels
<1>12. ListsInv'
  <2>1. IsFiniteSet(DOMAIN sessions')
    BY <1>8, FS_AddElement DEF ListsInv
  <2> QED
    BY <1>5, <1>7, <1>8, <2>1 DEF ListsInv
<1>13. ChannelsInv'
  <2>1. IsFiniteSet(DOMAIN cachemodel') /\ DOMAIN cachemodel' \subseteq Nat
    BY <1>3, <1>10, FS_AddElement DEF ChannelsInv
  <2>2. ASSUME NEW x \in DOMAIN open'
        PROVE  open'[x] \in DOMAIN sessions' /\ cachemodel'[x] \in SessionModels(open[x])'
    <3>1. CASE x = c
      BY <1>8, <1>9, <1>10, <1>11, <3>1
    <3>2. CASE x # c
      <4>1. x \in DOMAIN open /\ open'[x] = open[x] /\ cachemodel'[x] = cachemodel[x]
        BY <1>9, <1>10, <3>2 DEF ChannelsInv
      <4>2. open[x] \in DOMAIN sessions /\ cachemodel[x] \in SessionModels(open[x])
        BY <4>1 DEF ChannelsInv
      <4>3. PICK r \in DOMAIN sessions : r = open[x]
        BY <4>2
      <4>4. cachemodel[x] \in SessionModels(r)'
        BY <1>11, <4>2, <4>3
      <4> QED
        BY <1>8, <4>1, <4>3, <4>4 DEF SessionModels
    <3> QED
      BY <3>1, <3>2
  <2>3. ASSUME NEW r \in DOMAIN sessions'
        PROVE  Channels(r)' = {x \in DOMAIN open' : open'[x] = r}
    <3>1. CASE r = s
      BY <1>5, <1>7, <1>8, <1>9, <3>1 DEF Channels
    <3>2. CASE r # s
      <4>1. r \in DOMAIN sessions /\ Channels(r)' = Channels(r)
        BY <1>8, <3>2 DEF Channels
      <4> QED
        BY <1>9, <3>2, <4>1 DEF ChannelsInv
    <3> QED
      BY <3>1, <3>2
  <2> QED
    BY <1>9, <1>10, <2>1, <2>2, <2>3 DEF ChannelsInv
<1>14. OfSession'
  BY <1>2, <1>9 DEF OfSession
<1> QED
  BY <1>2, <1>8, <1>11, <1>12, <1>13, <1>14

\* What the request goes on with.
LEMMA AfterOpenGives ==
  ASSUME CallInv, part = "open", UNCHANGED <<query, target>>, part' = AfterOpen(query),
         DOMAIN uses \subseteq DOMAIN uses', cursession' # Nil,
         cursession' \in DOMAIN sessions', OfSession'
  PROVE  CallInv'
<1>1. /\ query \in Query /\ ~query.all /\ query.cclose = {}
      /\ target # Nil => target \in DOMAIN uses
  BY DEF CallInv
<1>2. query.view \in Views \cup {Nil}
  BY <1>1 DEF Query
<1>3. part' = IF query.view # Nil THEN "stream" ELSE "respond"
  BY <1>1 DEF AfterOpen
<1> QED
  BY <1>1, <1>2, <1>3 DEF CallInv, States

\* With the cache model the session or the channel has.
LEMMA OpenSharedKeeps == FilesFit /\ IInv /\ OpenShared => IInv'
<1>1. SUFFICES ASSUME FilesFit, IInv, OpenShared PROVE IInv'
  OBVIOUS
<1>2. /\ ListsInv /\ ChannelsInv /\ ModelsInv /\ UsesInv /\ ClientInv /\ QueueInv /\ CallInv
      /\ part = "open" /\ cursession # Nil
      /\ UNCHANGED <<sessionlist, uses, models, query, target, msgqueue, client>>
  BY <1>1 DEF IInv, OpenShared
<1>3. PICK list : list = sessions[cursession]
  OBVIOUS
<1>4. PICK ms : ms = IF target # Nil THEN ModelFor(list.models) ELSE {cachemodel[curchannel]}
  OBVIOUS
<1>5. PICK m \in ms : OpenIn(cursession, list, m)
  BY <1>1, <1>3, <1>4 DEF OpenShared
<1>6. PICK s : s = cursession
  OBVIOUS
<1>7. s \in DOMAIN sessions /\ s \in Nat /\ s # Nil
  BY <1>2, <1>6 DEF CallInv, ListsInv
<1>8. list \in Session /\ GoodList(list.channels) /\ GoodList(list.models)
  BY <1>3, <1>6, <1>7, <1>2 DEF ListsInv
<1>9. ToSet(list.channels.seq) = {c \in DOMAIN open : open[c] = s}
  BY <1>2, <1>3, <1>6, <1>7 DEF ChannelsInv, Channels
<1>10. SessionModels(s) = ToSet(list.models.seq)
  BY <1>3, <1>6 DEF SessionModels
<1>11. m \in ToSet(list.models.seq)
  <2>1. CASE target # Nil
    BY <1>4, <1>5, <2>1 DEF ModelFor
  <2>2. CASE target = Nil
    <3>1. curchannel \in DOMAIN open /\ open[curchannel] = s
      BY <1>2, <1>6, <2>2 DEF CallInv, OfSession
    <3>2. cachemodel[curchannel] \in SessionModels(s)
      BY <1>2, <3>1 DEF ChannelsInv
    <3> QED
      BY <1>4, <1>5, <1>10, <2>2, <3>2
  <2> QED
    BY <2>1, <2>2
<1>12. GoodList(sessionlist') /\ ToSet(sessionlist'.seq) = DOMAIN sessions \cup {s}
  BY <1>2, <1>7 DEF ListsInv
<1>13. OpenIn(s, list, m)
  BY <1>5, <1>6
<1>14. /\ ListsInv' /\ ChannelsInv' /\ OfSession' /\ cursession' = s
       /\ DOMAIN sessions' = DOMAIN sessions \cup {s}
       /\ SessionModels(s)' = ToSet(list.models.seq)
       /\ \A r \in DOMAIN sessions : r # s => SessionModels(r)' = SessionModels(r)
  BY <1>2, <1>7, <1>8, <1>9, <1>10, <1>11, <1>12, <1>13, OpenInGives
<1>15. /\ DOMAIN sessions' = DOMAIN sessions
       /\ \A r \in DOMAIN sessions : SessionModels(r)' = SessionModels(r)
  BY <1>7, <1>10, <1>14
<1>16. msgqueue = Nil /\ Queued = {} /\ ~Served
  BY <1>2, NoQueueYet
<1>17. QueueInv' /\ Queued' = {} /\ ~Served'
  BY <1>2, <1>16, NothingServed
<1>18. ModelsInv'
  BY <1>2, <1>15, <1>16, <1>17 DEF ModelsInv
<1>19. UsesInv'
  BY <1>2 DEF UsesInv, Of
<1>20. ClientInv'
  BY <1>2, <1>15, <1>16, <1>17 DEF ClientInv, Has, Pending
<1>21. CallInv'
  <2>1. part' = AfterOpen(query)
    BY <1>13 DEF OpenIn
  <2> QED
    BY <1>2, <1>7, <1>14, <2>1, AfterOpenGives
<1> QED
  BY <1>14, <1>17, <1>18, <1>19, <1>20, <1>21 DEF IInv

------------------------------------------------------------------------------
(* While nothing is being served the cache models are what the client has. *)
ClientHas ==
  \A s \in DOMAIN sessions : \A m \in SessionModels(s) :
    /\ <<s, models[m].target>> \in DOMAIN client
    /\ Has(s, m) = [b \in DOMAIN models[m].sent |-> Has(s, m)[b]]
    /\ \A b \in DOMAIN models[m].sent : models[m].sent[b] = Has(s, m)[b]

\* Then nothing is pending, and this is what the invariant says.
LEMMA ClientHasSame == ~Served => (ClientInv <=> ClientHas)
<1>1. SUFFICES ASSUME ~Served PROVE ClientInv <=> ClientHas
  OBVIOUS
<1>2. \A m, b : Pending(m, b) = {}
  BY <1>1 DEF Pending
<1>3. ClientInv => ClientHas
  <2>1. SUFFICES ASSUME ClientInv, NEW s \in DOMAIN sessions, NEW m \in SessionModels(s)
        PROVE  /\ <<s, models[m].target>> \in DOMAIN client
               /\ Has(s, m) = [b \in DOMAIN models[m].sent |-> Has(s, m)[b]]
               /\ \A b \in DOMAIN models[m].sent : models[m].sent[b] = Has(s, m)[b]
    BY DEF ClientHas
  <2>2. /\ <<s, models[m].target>> \in DOMAIN client
        /\ Has(s, m) = [b \in DOMAIN models[m].sent |-> Has(s, m)[b]]
        /\ \A b \in DOMAIN models[m].sent : models[m].sent[b] = Has(s, m)[b] \cup Pending(m, b)
    BY <2>1 DEF ClientInv
  <2> QED
    BY <1>2, <2>2
<1>4. ClientHas => ClientInv
  <2>1. SUFFICES ASSUME ClientHas, NEW s \in DOMAIN sessions, NEW m \in SessionModels(s)
        PROVE  /\ <<s, models[m].target>> \in DOMAIN client
               /\ Has(s, m) = [b \in DOMAIN models[m].sent |-> Has(s, m)[b]]
               /\ \A b \in DOMAIN models[m].sent :
                    models[m].sent[b] = Has(s, m)[b] \cup Pending(m, b)
    BY DEF ClientInv
  <2>2. /\ <<s, models[m].target>> \in DOMAIN client
        /\ Has(s, m) = [b \in DOMAIN models[m].sent |-> Has(s, m)[b]]
        /\ \A b \in DOMAIN models[m].sent : models[m].sent[b] = Has(s, m)[b]
    BY <2>1 DEF ClientHas
  <2> QED
    BY <1>2, <2>2
<1> QED
  BY <1>3, <1>4

\* The same of the next state.
LEMMA ClientHasNext == ~Served' => (ClientInv' <=> ClientHas')
BY ClientHasSame, PTL

------------------------------------------------------------------------------
\* A cache model that comes is one more reference.
LEMMA ReferGives ==
  ASSUME ModelsInv, UsesInv, NEW u \in DOMAIN uses, NEW m, m \notin DOMAIN models,
         NEW n, n.target = u, models' = With(models, m, n), uses' = Refer(u)
  PROVE  UsesInv'
<1>1. /\ DOMAIN models' = DOMAIN models \cup {m} /\ models'[m] = n
      /\ \A x \in DOMAIN models : models'[x] = models[x]
  BY DEF With
<1>2. /\ DOMAIN uses' = DOMAIN uses /\ uses'[u] = uses[u] + 1
      /\ \A t \in DOMAIN uses : t # u => uses'[t] = uses[t]
  BY DEF Refer
<1>3. Of(u)' = Of(u) \cup {m}
  BY <1>1 DEF Of
<1>4. \A t : t # u => Of(t)' = Of(t)
  BY <1>1 DEF Of
<1>5. IsFiniteSet(Of(u)) /\ m \notin Of(u)
  BY FS_Subset DEF ModelsInv, Of
<1>6. Cardinality(Of(u) \cup {m}) = Cardinality(Of(u)) + 1
  BY <1>5, FS_AddElement
<1>7. \A t \in DOMAIN uses' : uses'[t] = Cardinality(Of(t)')
  BY <1>2, <1>3, <1>4, <1>6 DEF UsesInv
<1>8. \A x \in DOMAIN models' : models'[x].target \in DOMAIN uses'
  BY <1>1, <1>2 DEF UsesInv
<1> QED
  BY <1>2, <1>7, <1>8 DEF UsesInv

\* With a new cache model, which is the only one of the session for the target.
LEMMA OpenWithModelKeeps ==
  ASSUME FilesFit, IInv, part = "open", NEW s \in Nat, NEW list \in Session,
         GoodList(list.channels), GoodList(list.models),
         GoodList(sessionlist'), ToSet(sessionlist'.seq) = DOMAIN sessions \cup {s},
         ToSet(list.channels.seq) = {c \in DOMAIN open : open[c] = s},
         s \in DOMAIN sessions => ToSet(list.models.seq) = SessionModels(s),
         s \notin DOMAIN sessions => ToSet(list.models.seq) = {},
         target \in DOMAIN uses, ModelFor(list.models) = {},
         OpenWithModel(s, list), UNCHANGED <<query, target, msgqueue>>
  PROVE  IInv'
<1>1. /\ ListsInv /\ ChannelsInv /\ ModelsInv /\ UsesInv /\ ClientInv /\ QueueInv /\ CallInv
      /\ target \in DOMAIN Files
  BY DEF IInv, UsesInv
<1>2. msgqueue = Nil /\ Queued = {} /\ ~Served
  BY <1>1, NoQueueYet
<1>3. QueueInv' /\ Queued' = {} /\ ~Served'
  BY <1>2, NothingServed
<1>4. PICK m : m = Fresh(DOMAIN models)
  OBVIOUS
<1>5. m \in Nat /\ m \notin DOMAIN models
  BY <1>1, <1>4, FreshGives DEF ModelsInv
<1>6. PICK n : n = NewModel(target, query.jpp)
  OBVIOUS
<1>7. FitModel(n) /\ n.target = target /\ \A b \in DOMAIN n.sent : n.sent[b] = {}
  <2>1. query.jpp \in BOOLEAN
    BY <1>1 DEF CallInv, Query
  <2> QED
    BY <1>1, <1>6, <2>1, NewModelFits
<1>8. /\ models' = With(models, m, n) /\ uses' = Refer(target)
      /\ OpenIn(s, [list EXCEPT !.models = AddLast(@, m)], m)
      /\ client' = With(client, <<s, target>>, [b \in DOMAIN models'[m].sent |-> {}])
  BY <1>4, <1>6 DEF OpenWithModel
<1>9. /\ DOMAIN models' = DOMAIN models \cup {m} /\ models'[m] = n
      /\ \A x \in DOMAIN models : models'[x] = models[x]
  BY <1>5, <1>8 DEF With
<1>10. PICK M : M = ToSet(list.models.seq)
  OBVIOUS
<1>11. /\ M \subseteq DOMAIN models /\ m \notin M
       /\ \A x \in M : models[x].target # target
       /\ s \in DOMAIN sessions => M = SessionModels(s)
  <2>1. M \subseteq DOMAIN models
    BY <1>1, <1>10 DEF ModelsInv
  <2> QED
    BY <1>5, <1>10, <2>1 DEF ModelFor
<1>12. PICK e : e = [list EXCEPT !.models = AddLast(@, m)]
  OBVIOUS
<1>13. /\ e \in Session /\ GoodList(e.channels) /\ GoodList(e.models)
       /\ e.channels = list.channels /\ ToSet(e.models.seq) = M \cup {m}
  <2>1. GoodList(AddLast(list.models, m)) /\ ToSet(AddLast(list.models, m).seq) = M \cup {m}
    BY <1>5, <1>10, <1>11, AddLastGives
  <2>2. e = [channels |-> list.channels, models |-> AddLast(list.models, m)]
    BY <1>12 DEF Session
  <2> QED
    BY <2>1, <2>2 DEF Session, GoodList
<1>14. /\ ListsInv' /\ ChannelsInv' /\ OfSession' /\ cursession' = s
       /\ DOMAIN sessions' = DOMAIN sessions \cup {s}
       /\ SessionModels(s)' = M \cup {m}
       /\ \A r \in DOMAIN sessions : r # s => SessionModels(r)' = SessionModels(r)
  <2>1. OpenIn(s, e, m)
    BY <1>8, <1>12
  <2>2. s \in DOMAIN sessions => SessionModels(s) \subseteq ToSet(e.models.seq)
    BY <1>11, <1>13
  <2>3. m \in ToSet(e.models.seq) /\ ToSet(e.channels.seq) = {c \in DOMAIN open : open[c] = s}
    BY <1>13
  <2> QED
    BY <1>1, <1>13, <2>1, <2>2, <2>3, OpenInGives
<1>15. ModelsInv'
  <2>1. DOMAIN models' \subseteq Nat /\ IsFiniteSet(DOMAIN models')
    BY <1>1, <1>5, <1>9, FS_AddElement DEF ModelsInv
  <2>2. \A x \in DOMAIN models' : FitModel(models'[x])
    BY <1>1, <1>7, <1>9 DEF ModelsInv
  <2>3. \A r \in DOMAIN sessions' : SessionModels(r)' \subseteq DOMAIN models'
    BY <1>1, <1>9, <1>11, <1>14 DEF ModelsInv
  <2>4. ASSUME NEW x \in DOMAIN models' PROVE \E r \in DOMAIN sessions' : x \in SessionModels(r)'
    <3>1. CASE x = m
      BY <1>14, <3>1
    <3>2. CASE x # m
      <4>1. PICK r \in DOMAIN sessions : x \in SessionModels(r)
        BY <1>1, <1>2, <1>9, <3>2 DEF ModelsInv
      <4>2. x \in SessionModels(r)'
        BY <1>11, <1>14, <4>1
      <4> QED
        BY <1>14, <4>1, <4>2
    <3> QED
      BY <3>1, <3>2
  <2>5. ASSUME NEW r1 \in DOMAIN sessions', NEW r2 \in DOMAIN sessions',
               NEW x \in SessionModels(r1)', x \in SessionModels(r2)'
        PROVE  r1 = r2
    <3>1. CASE x = m
      BY <1>1, <1>5, <1>14, <2>5, <3>1 DEF ModelsInv
    <3>2. CASE x # m
      <4>1. r1 \in DOMAIN sessions /\ x \in SessionModels(r1)
        BY <1>10, <1>11, <1>14, <2>5, <3>2
      <4>2. r2 \in DOMAIN sessions /\ x \in SessionModels(r2)
        BY <1>10, <1>11, <1>14, <2>5, <3>2
      <4> QED
        BY <1>1, <4>1, <4>2 DEF ModelsInv
    <3> QED
      BY <3>1, <3>2
  <2>6. ASSUME NEW r \in DOMAIN sessions', NEW m1 \in SessionModels(r)',
               NEW m2 \in SessionModels(r)', models'[m1].target = models'[m2].target
        PROVE  m1 = m2
    <3>1. CASE r # s
      <4>1. r \in DOMAIN sessions /\ m1 \in SessionModels(r) /\ m2 \in SessionModels(r)
        BY <1>14, <2>6, <3>1
      <4>2. models'[m1] = models[m1] /\ models'[m2] = models[m2]
        BY <1>1, <1>9, <4>1 DEF ModelsInv
      <4> QED
        BY <1>1, <2>6, <4>1, <4>2 DEF ModelsInv
    <3>2. CASE r = s
      <4>1. m1 \in M \cup {m} /\ m2 \in M \cup {m}
        BY <1>14, <3>2
      <4>2. CASE m1 = m \/ m2 = m
        <5>1. \A x \in M : models'[x].target # target
          BY <1>9, <1>11
        <5> QED
          BY <1>7, <1>9, <2>6, <4>1, <4>2, <5>1
      <4>3. CASE m1 # m /\ m2 # m
        <5>1. m1 \in M /\ m2 \in M /\ models'[m1] = models[m1] /\ models'[m2] = models[m2]
          BY <1>9, <1>11, <4>1, <4>3
        <5>2. s \in DOMAIN sessions /\ M = SessionModels(s)
          BY <1>10, <1>11, <5>1
        <5> QED
          BY <1>1, <2>6, <5>1, <5>2 DEF ModelsInv
      <4> QED
        BY <4>2, <4>3
    <3> QED
      BY <3>1, <3>2
  <2>7. \A r1, r2 \in DOMAIN sessions' :
          SessionModels(r1)' \cap SessionModels(r2)' # {} => r1 = r2
    BY <2>5
  <2>8. \A r \in DOMAIN sessions' : \A m1, m2 \in SessionModels(r)' :
          models'[m1].target = models'[m2].target => m1 = m2
    BY <2>6
  <2> QED
    BY <1>3, <2>1, <2>2, <2>3, <2>4, <2>7, <2>8 DEF ModelsInv
<1>16. UsesInv'
  BY <1>1, <1>5, <1>7, <1>8, ReferGives
<1>17. ClientInv'
  <2>1. PICK h : h = [b \in DOMAIN n.sent |-> {}]
    OBVIOUS
  <2>2. /\ DOMAIN client' = DOMAIN client \cup {<<s, target>>} /\ client'[<<s, target>>] = h
        /\ \A k \in DOMAIN client : k # <<s, target>> => client'[k] = client[k]
    BY <1>8, <1>9, <2>1 DEF With
  <2>3. ASSUME NEW r \in DOMAIN sessions', NEW x \in SessionModels(r)'
        PROVE  /\ <<r, models'[x].target>> \in DOMAIN client'
               /\ client'[<<r, models'[x].target>>] =
                    [b \in DOMAIN models'[x].sent |-> client'[<<r, models'[x].target>>][b]]
               /\ \A b \in DOMAIN models'[x].sent :
                    models'[x].sent[b] = client'[<<r, models'[x].target>>][b]
    <3>1. CASE r = s /\ x = m
      BY <1>7, <1>9, <2>1, <2>2, <3>1
    <3>2. CASE ~(r = s /\ x = m)
      <4>1. r \in DOMAIN sessions /\ x \in SessionModels(r)
        BY <1>10, <1>11, <1>14, <2>3, <3>2
      <4>2. x \in DOMAIN models /\ models'[x] = models[x]
        BY <1>1, <1>9, <4>1 DEF ModelsInv
      <4>3. /\ <<r, models[x].target>> \in DOMAIN client
            /\ Has(r, x) = [b \in DOMAIN models[x].sent |-> Has(r, x)[b]]
            /\ \A b \in DOMAIN models[x].sent : models[x].sent[b] = Has(r, x)[b]
        BY <1>1, <1>2, <4>1, ClientHasSame DEF ClientHas
      <4>4. <<r, models[x].target>> # <<s, target>>
        BY <1>11, <4>1
      <4>5. client'[<<r, models[x].target>>] = Has(r, x)
        BY <2>2, <4>3, <4>4 DEF Has
      <4> QED
        BY <2>2, <4>2, <4>3, <4>5
    <3> QED
      BY <3>1, <3>2
  <2> QED
    BY <1>3, <2>3, ClientHasNext DEF ClientHas, Has
<1>18. CallInv'
  <2>1. part' = AfterOpen(query) /\ s # Nil
    BY <1>8 DEF OpenIn, FilesFit
  <2>2. DOMAIN uses \subseteq DOMAIN uses'
    BY <1>8 DEF Refer
  <2> QED
    BY <1>1, <1>14, <2>1, <2>2, AfterOpenGives
<1> QED
  BY <1>3, <1>14, <1>15, <1>16, <1>17, <1>18 DEF IInv

\* In a new session.
LEMMA OpenSessionKeeps == FilesFit /\ IInv /\ OpenSession => IInv'
<1>1. SUFFICES ASSUME FilesFit, IInv, OpenSession PROVE IInv'
  OBVIOUS
<1>2. ListsInv /\ ChannelsInv /\ CallInv
  BY <1>1 DEF IInv
<1>3. PICK s : s = Fresh(DOMAIN sessions)
  OBVIOUS
<1>4. PICK list : list = [channels |-> EmptyList, models |-> EmptyList]
  OBVIOUS
<1>5. /\ part = "open" /\ cursession = Nil /\ sessionlist' = AddLast(sessionlist, s)
      /\ OpenWithModel(s, list) /\ UNCHANGED <<query, target, msgqueue>>
  BY <1>1, <1>3, <1>4 DEF OpenSession
<1>6. s \in Nat /\ s \notin DOMAIN sessions
  BY <1>2, <1>3, FreshGives DEF ListsInv
<1>7. GoodList(sessionlist') /\ ToSet(sessionlist'.seq) = DOMAIN sessions \cup {s}
  <2>1. GoodList(sessionlist) /\ ToSet(sessionlist.seq) = DOMAIN sessions
    BY <1>2 DEF ListsInv
  <2> QED
    BY <1>5, <1>6, <2>1, AddLastGives
<1>8. /\ list \in Session /\ GoodList(list.channels) /\ GoodList(list.models)
      /\ ToSet(list.channels.seq) = {} /\ ToSet(list.models.seq) = {}
  BY <1>4, EmptyListGood DEF Session, GoodList
<1>9. {c \in DOMAIN open : open[c] = s} = {} /\ ModelFor(list.models) = {}
  BY <1>2, <1>6, <1>8 DEF ChannelsInv, ModelFor
<1>10. target \in DOMAIN uses
  BY <1>2, <1>5 DEF CallInv
<1> QED
  BY <1>1, <1>5, <1>6, <1>7, <1>8, <1>9, <1>10, OpenWithModelKeeps

\* In a session that has no cache model for the target.
LEMMA OpenTargetKeeps == FilesFit /\ IInv /\ OpenTarget => IInv'
<1>1. SUFFICES ASSUME FilesFit, IInv, OpenTarget PROVE IInv'
  OBVIOUS
<1>2. ListsInv /\ ChannelsInv /\ CallInv
  BY <1>1 DEF IInv
<1>3. PICK s : s = cursession
  OBVIOUS
<1>4. PICK list : list = sessions[s]
  OBVIOUS
<1>5. /\ part = "open" /\ s # Nil /\ target # Nil /\ ModelFor(list.models) = {}
      /\ OpenWithModel(s, list) /\ UNCHANGED <<sessionlist, query, target, msgqueue>>
  BY <1>1, <1>3, <1>4 DEF OpenTarget
<1>6. s \in DOMAIN sessions /\ s \in Nat /\ target \in DOMAIN uses
  BY <1>2, <1>3, <1>5 DEF CallInv, ListsInv
<1>7. /\ list \in Session /\ GoodList(list.channels) /\ GoodList(list.models)
      /\ GoodList(sessionlist') /\ ToSet(sessionlist'.seq) = DOMAIN sessions \cup {s}
  BY <1>2, <1>4, <1>5, <1>6 DEF ListsInv
<1>8. ToSet(list.channels.seq) = {c \in DOMAIN open : open[c] = s}
  BY <1>2, <1>4, <1>6 DEF ChannelsInv, Channels
<1>9. ToSet(list.models.seq) = SessionModels(s)
  BY <1>4 DEF SessionModels
<1> QED
  BY <1>1, <1>5, <1>6, <1>7, <1>8, <1>9, OpenWithModelKeeps

------------------------------------------------------------------------------
\* Cache models that go take their references along.
LEMMA UnreferGives ==
  ASSUME IsFiniteSet(DOMAIN models), UsesInv, NEW G, G \subseteq DOMAIN models,
         uses' = Unrefer(G), models' = Minus(models, G)
  PROVE  /\ UsesInv' /\ DOMAIN uses' = DOMAIN uses /\ DOMAIN models' = DOMAIN models \ G
         /\ \A x \in DOMAIN models \ G : models'[x] = models[x]
<1>1. /\ DOMAIN models' = DOMAIN models \ G
      /\ \A x \in DOMAIN models \ G : models'[x] = models[x]
  BY DEF Minus
<1>2. DOMAIN uses' = DOMAIN uses
  BY DEF Unrefer
<1>3. ASSUME NEW t \in DOMAIN uses PROVE uses'[t] = Cardinality(Of(t)')
  <2>1. PICK A : A = {m \in G : models[m].target = t}
    OBVIOUS
  <2>2. uses'[t] = Cardinality(Of(t)) - Cardinality(A)
    BY <2>1 DEF Unrefer, UsesInv
  <2>3. Of(t)' = Of(t) \ A /\ Of(t) \cap A = A
    BY <1>1, <2>1 DEF Of
  <2>4. IsFiniteSet(Of(t))
    BY FS_Subset DEF Of
  <2>5. Cardinality(Of(t) \ A) = Cardinality(Of(t)) - Cardinality(Of(t) \cap A)
    BY <2>4, FS_Difference
  <2> QED
    BY <2>2, <2>3, <2>5
<1>4. UsesInv'
  BY <1>1, <1>2, <1>3 DEF UsesInv
<1> QED
  BY <1>1, <1>2, <1>4

\* A session goes, and its channels and cache models with it.
LEMMA DeleteSessionGives ==
  ASSUME ListsInv, ChannelsInv, ModelsInv, UsesInv, ClientInv, msgqueue = Nil,
         NEW s \in DOMAIN sessions, DeleteSession(s),
         DOMAIN open' = DOMAIN open \ Channels(s),
         \A c \in DOMAIN open' : open'[c] = open[c],
         DOMAIN cachemodel' = DOMAIN cachemodel \ Channels(s),
         \A c \in DOMAIN cachemodel' : cachemodel'[c] = cachemodel[c], UNCHANGED msgqueue
  PROVE  ListsInv' /\ ChannelsInv' /\ ModelsInv' /\ UsesInv' /\ ClientInv' /\ QueueInv'
<1>1. QueueInv' /\ Queued' = {} /\ ~Served' /\ Queued = {} /\ ~Served
  BY NothingServed DEF Queued, Served
<1>2. PICK G : G = SessionModels(s)
  OBVIOUS
<1>3. G \subseteq DOMAIN models
  BY <1>2 DEF ModelsInv
<1>4. /\ sessionlist' = Without(sessionlist, s) /\ sessions' = Minus(sessions, {s})
      /\ uses' = Unrefer(G) /\ models' = Minus(models, G)
      /\ client' = Minus(client, {k \in DOMAIN client : k[1] = s})
  BY <1>2 DEF DeleteSession, SessionModels
<1>5. /\ UsesInv' /\ DOMAIN models' = DOMAIN models \ G
      /\ \A x \in DOMAIN models \ G : models'[x] = models[x]
  <2>1. IsFiniteSet(DOMAIN models)
    BY DEF ModelsInv
  <2> QED
    BY <1>3, <1>4, <2>1, UnreferGives
<1>6. DOMAIN sessions' = DOMAIN sessions \ {s} /\ \A r \in DOMAIN sessions' : sessions'[r] = sessions[r]
  BY <1>4 DEF Minus
<1>7. \A r \in DOMAIN sessions' : SessionModels(r)' = SessionModels(r) /\ Channels(r)' = Channels(r)
  BY <1>6 DEF SessionModels, Channels
<1>8. ListsInv'
  <2>1. GoodList(sessionlist') /\ ToSet(sessionlist'.seq) = DOMAIN sessions \ {s}
    <3>1. GoodList(sessionlist) /\ ToSet(sessionlist.seq) = DOMAIN sessions
      BY DEF ListsInv
    <3> QED
      BY <1>4, <3>1, WithoutGives
  <2>2. IsFiniteSet(DOMAIN sessions')
    BY <1>6, FS_Subset DEF ListsInv
  <2> QED
    BY <1>6, <2>1, <2>2 DEF ListsInv
<1>9. ChannelsInv'
  <2>1. IsFiniteSet(DOMAIN cachemodel') /\ DOMAIN cachemodel' \subseteq Nat
    BY FS_Subset DEF ChannelsInv
  <2>2. ASSUME NEW c \in DOMAIN open'
        PROVE  open'[c] \in DOMAIN sessions' /\ cachemodel'[c] \in SessionModels(open[c])'
    <3>1. PICK r \in DOMAIN sessions : r = open[c] /\ cachemodel[c] \in SessionModels(r)
      BY DEF ChannelsInv
    <3>2. r # s
      BY <3>1 DEF ChannelsInv
    <3>3. r \in DOMAIN sessions' /\ cachemodel'[c] = cachemodel[c] /\ open'[c] = r
      BY <1>6, <3>1, <3>2 DEF ChannelsInv
    <3>4. cachemodel'[c] \in SessionModels(r)'
      BY <1>7, <3>1, <3>3
    <3> QED
      BY <3>3, <3>4 DEF SessionModels
  <2>3. ASSUME NEW r \in DOMAIN sessions'
        PROVE  Channels(r)' = {c \in DOMAIN open' : open'[c] = r}
    <3>1. Channels(r)' = {c \in DOMAIN open : open[c] = r} /\ r # s
      BY <1>6, <1>7 DEF ChannelsInv
    <3>2. Channels(s) = {c \in DOMAIN open : open[c] = s}
      BY DEF ChannelsInv
    <3> QED
      BY <3>1, <3>2
  <2>4. DOMAIN open' = DOMAIN cachemodel'
    BY DEF ChannelsInv
  <2> QED
    BY <2>1, <2>2, <2>3, <2>4 DEF ChannelsInv
<1>10. \A r \in DOMAIN sessions' : SessionModels(r) \cap G = {}
  BY <1>2, <1>6 DEF ModelsInv
<1>11. ModelsInv'
  <2>1. DOMAIN models' \subseteq Nat /\ IsFiniteSet(DOMAIN models')
    BY <1>5, FS_Subset DEF ModelsInv
  <2>2. \A x \in DOMAIN models' : FitModel(models'[x])
    BY <1>5 DEF ModelsInv
  <2>3. \A r \in DOMAIN sessions' : SessionModels(r)' \subseteq DOMAIN models'
    BY <1>5, <1>6, <1>7, <1>10 DEF ModelsInv
  <2>4. ASSUME NEW x \in DOMAIN models' PROVE \E r \in DOMAIN sessions' : x \in SessionModels(r)'
    <3>1. PICK r \in DOMAIN sessions : x \in SessionModels(r)
      BY <1>1, <1>5 DEF ModelsInv
    <3>2. r \in DOMAIN sessions'
      BY <1>2, <1>5, <1>6, <3>1
    <3> QED
      BY <1>7, <3>1, <3>2
  <2>5. \A r1, r2 \in DOMAIN sessions' :
          SessionModels(r1)' \cap SessionModels(r2)' # {} => r1 = r2
    BY <1>6, <1>7 DEF ModelsInv
  <2>6. ASSUME NEW r \in DOMAIN sessions', NEW m1 \in SessionModels(r)',
               NEW m2 \in SessionModels(r)', models'[m1].target = models'[m2].target
        PROVE  m1 = m2
    <3>1. r \in DOMAIN sessions /\ m1 \in SessionModels(r) /\ m2 \in SessionModels(r)
      BY <1>6, <1>7
    <3>2. models'[m1] = models[m1] /\ models'[m2] = models[m2]
      BY <1>5, <2>3, <2>6
    <3> QED
      BY <2>6, <3>1, <3>2 DEF ModelsInv
  <2>7. \A r \in DOMAIN sessions' : \A m1, m2 \in SessionModels(r)' :
          models'[m1].target = models'[m2].target => m1 = m2
    BY <2>6
  <2> QED
    BY <1>1, <2>1, <2>2, <2>3, <2>4, <2>5, <2>7 DEF ModelsInv
<1>12. ClientInv'
  <2>1. /\ DOMAIN client' = DOMAIN client \ {k \in DOMAIN client : k[1] = s}
        /\ \A k \in DOMAIN client' : client'[k] = client[k]
    BY <1>4 DEF Minus
  <2>2. ASSUME NEW r \in DOMAIN sessions', NEW x \in SessionModels(r)'
        PROVE  /\ <<r, models'[x].target>> \in DOMAIN client'
               /\ client'[<<r, models'[x].target>>] =
                    [b \in DOMAIN models'[x].sent |-> client'[<<r, models'[x].target>>][b]]
               /\ \A b \in DOMAIN models'[x].sent :
                    models'[x].sent[b] = client'[<<r, models'[x].target>>][b]
    <3>1. r \in DOMAIN sessions /\ r # s /\ x \in SessionModels(r) /\ x \in DOMAIN models \ G
      BY <1>6, <1>7, <1>10 DEF ModelsInv
    <3>2. models'[x] = models[x]
      BY <1>5, <3>1
    <3>3. /\ <<r, models[x].target>> \in DOMAIN client
          /\ Has(r, x) = [b \in DOMAIN models[x].sent |-> Has(r, x)[b]]
          /\ \A b \in DOMAIN models[x].sent : models[x].sent[b] = Has(r, x)[b]
      BY <1>1, <3>1, ClientHasSame DEF ClientHas
    <3>4. /\ <<r, models[x].target>> \in DOMAIN client'
          /\ client'[<<r, models[x].target>>] = Has(r, x)
      BY <2>1, <3>1, <3>3 DEF Has
    <3> QED
      BY <3>2, <3>3, <3>4
  <2> QED
    BY <1>1, <2>2, ClientHasNext DEF ClientHas, Has
<1> QED
  BY <1>1, <1>5, <1>8, <1>9, <1>11, <1>12

------------------------------------------------------------------------------
\* All the channels of a session are closed.
LEMMA CloseAllKeeps == FilesFit /\ IInv /\ CloseAll => IInv'
<1>1. SUFFICES ASSUME FilesFit, IInv, CloseAll PROVE IInv'
  OBVIOUS
<1>2. /\ ListsInv /\ ChannelsInv /\ ModelsInv /\ UsesInv /\ ClientInv /\ QueueInv /\ CallInv
      /\ part = "close" /\ cursession # Nil /\ DeleteSession(cursession) /\ part' = "respond"
      /\ UNCHANGED <<query, target, cursession, curchannel, msgqueue, channel>>
  BY <1>1 DEF IInv, CloseAll
<1>3. PICK s : s = cursession
  OBVIOUS
<1>4. s \in DOMAIN sessions /\ DeleteSession(s)
  BY <1>2, <1>3 DEF CallInv
<1>5. cachemodel' = Minus(cachemodel, Channels(s)) /\ open' = Minus(open, Channels(s))
  BY <1>1, <1>3 DEF CloseAll, Channels
<1>6. /\ DOMAIN open' = DOMAIN open \ Channels(s)
      /\ \A c \in DOMAIN open' : open'[c] = open[c]
      /\ DOMAIN cachemodel' = DOMAIN cachemodel \ Channels(s)
      /\ \A c \in DOMAIN cachemodel' : cachemodel'[c] = cachemodel[c]
  BY <1>5 DEF Minus
<1>7. msgqueue = Nil
  BY <1>2, NoQueueYet
<1>8. ListsInv' /\ ChannelsInv' /\ ModelsInv' /\ UsesInv' /\ ClientInv' /\ QueueInv'
  BY <1>2, <1>4, <1>6, <1>7, DeleteSessionGives
<1>9. CallInv'
  BY <1>2 DEF CallInv, States
<1> QED
  BY <1>8, <1>9 DEF IInv

\* A step of a call that leaves the lists and the client alone.
LEMMA CallsKept ==
  ASSUME IInv, msgqueue = Nil, UNCHANGED <<lists, open, client, msgqueue>>
  PROVE  ListsInv' /\ ChannelsInv' /\ ModelsInv' /\ UsesInv' /\ ClientInv' /\ QueueInv'
<1>1. ListsInv /\ ChannelsInv /\ ModelsInv /\ UsesInv /\ ClientInv
  BY DEF IInv
<1>2. QueueInv' /\ ~Served /\ ~Served'
  BY NothingServed DEF Served
<1>3. ListsInv' /\ ChannelsInv' /\ ModelsInv' /\ ClientInv'
  <2>1. UNCHANGED <<sessionlist, sessions, cachemodel, models, msgqueue, open, client>>
    BY DEF lists
  <2>2. Served' = Served
    BY DEF Served
  <2> QED
    BY <1>1, <2>1, <2>2, ListsKept
<1>4. UsesInv'
  BY <1>1 DEF UsesInv, Of, lists
<1> QED
  BY <1>2, <1>3, <1>4

\* The channels to close are of one session.
LEMMA CloseListedKeeps == FilesFit /\ IInv /\ CloseListed => IInv'
<1>1. SUFFICES ASSUME FilesFit, IInv, CloseListed PROVE IInv'
  OBVIOUS
<1>2. /\ ListsInv /\ ChannelsInv /\ QueueInv /\ CallInv
      /\ part = "close" /\ ~query.all /\ OfOneSession /\ part' = "closing"
      /\ cursession' = SessionOf(CHOOSE c \in query.cclose : TRUE)
      /\ UNCHANGED <<lists, query, target, curchannel, msgqueue, open, client>>
  BY <1>1 DEF IInv, CloseListed
<1>3. msgqueue = Nil
  BY <1>2, NoQueueYet
<1>4. ListsInv' /\ ChannelsInv' /\ ModelsInv' /\ UsesInv' /\ ClientInv' /\ QueueInv'
  BY <1>1, <1>2, <1>3, CallsKept
<1>5. query.cclose # {} /\ query.cclose \subseteq DOMAIN open
  BY <1>2 DEF CallInv
<1>6. \A c \in query.cclose : SessionOf(c) = open[c] /\ open[c] \in DOMAIN sessions
  BY <1>2, <1>5, SessionOfGives
<1>7. \A c, d \in query.cclose : SessionOf(c) = SessionOf(d)
  <2>1. PICK S : S = {SessionOf(c) : c \in query.cclose} \cup ({cursession} \ {Nil})
    OBVIOUS
  <2>2. IsFiniteSet(S)
    <3>1. S \subseteq DOMAIN sessions
      BY <1>2, <1>6, <2>1 DEF CallInv
    <3> QED
      BY <1>2, <3>1, FS_Subset DEF ListsInv
  <2>3. PICK x : S = {x}
    BY <1>2, <2>1, <2>2, FS_Singleton DEF OfOneSession
  <2> QED
    BY <2>1, <2>3
<1>8. PICK d \in query.cclose : cursession' = SessionOf(d)
  BY <1>2, <1>5
<1>9. /\ cursession' \in DOMAIN sessions
      /\ \A c \in query.cclose : c \in DOMAIN open /\ open[c] = cursession'
  BY <1>5, <1>6, <1>7, <1>8
<1>10. CallInv'
  BY <1>2, <1>9 DEF CallInv, States, ToClose, lists
<1> QED
  BY <1>4, <1>10 DEF IInv

\* They are not, and none is closed.
LEMMA CloseRefusedKeeps == FilesFit /\ IInv /\ CloseRefused => IInv'
<1>1. SUFFICES ASSUME FilesFit, IInv, CloseRefused PROVE IInv'
  OBVIOUS
<1>2. /\ QueueInv /\ CallInv /\ part = "close" /\ part' = "failed"
      /\ UNCHANGED <<lists, query, target, cursession, curchannel, msgqueue, open, client>>
  BY <1>1 DEF IInv, CloseRefused
<1>3. msgqueue = Nil
  BY <1>2, NoQueueYet
<1>4. ListsInv' /\ ChannelsInv' /\ ModelsInv' /\ UsesInv' /\ ClientInv' /\ QueueInv'
  BY <1>1, <1>2, <1>3, CallsKept
<1>5. CallInv'
  BY <1>2 DEF CallInv, States
<1> QED
  BY <1>4, <1>5 DEF IInv

\* One channel is closed.
LEMMA CloseOneKeeps == FilesFit /\ IInv /\ CloseOne => IInv'
<1>1. SUFFICES ASSUME FilesFit, IInv, CloseOne PROVE IInv'
  OBVIOUS
<1>2. /\ ListsInv /\ ChannelsInv /\ ModelsInv /\ UsesInv /\ ClientInv /\ QueueInv /\ CallInv
      /\ part = "closing"
      /\ UNCHANGED <<uses, sessionlist, models, query, target, cursession, msgqueue, part, client>>
  BY <1>1 DEF IInv, CloseOne
<1>3. PICK s : s = cursession
  OBVIOUS
<1>4. PICK c \in ToClose :
        /\ cachemodel' = Minus(cachemodel, {c}) /\ open' = Minus(open, {c})
        /\ sessions' = With(sessions, s, [sessions[s] EXCEPT !.channels = Without(@, c)])
  BY <1>1, <1>3 DEF CloseOne
<1>5. /\ s \in DOMAIN sessions
      /\ \A d \in ToClose : d \in DOMAIN open /\ open[d] = s
  BY <1>2, <1>3 DEF CallInv
<1>6. /\ sessions[s] \in Session /\ GoodList(sessions[s].channels)
      /\ GoodList(sessions[s].models)
      /\ ToSet(sessions[s].channels.seq) = {d \in DOMAIN open : open[d] = s}
  BY <1>2, <1>5 DEF ListsInv, ChannelsInv, Channels
<1>7. PICK a : a = Without(sessions[s].channels, c)
  OBVIOUS
<1>8. GoodList(a) /\ ToSet(a.seq) = {d \in DOMAIN open : open[d] = s} \ {c}
  <2>1. c \in ToSet(sessions[s].channels.seq)
    BY <1>5, <1>6
  <2> QED
    BY <1>6, <1>7, <2>1, WithoutGives
<1>9. PICK e : e = [sessions[s] EXCEPT !.channels = Without(@, c)]
  OBVIOUS
<1>10. e = [channels |-> a, models |-> sessions[s].models] /\ e \in Session
  BY <1>6, <1>7, <1>8, <1>9 DEF Session, GoodList
<1>11. /\ DOMAIN sessions' = DOMAIN sessions /\ sessions'[s] = e
       /\ \A r \in DOMAIN sessions : r # s => sessions'[r] = sessions[r]
  BY <1>4, <1>5, <1>9 DEF With
<1>12. /\ DOMAIN open' = DOMAIN open \ {c} /\ \A x \in DOMAIN open' : open'[x] = open[x]
       /\ DOMAIN cachemodel' = DOMAIN cachemodel \ {c}
       /\ \A x \in DOMAIN cachemodel' : cachemodel'[x] = cachemodel[x]
  BY <1>4 DEF Minus
<1>13. \A r \in DOMAIN sessions : SessionModels(r)' = SessionModels(r)
  BY <1>10, <1>11 DEF SessionModels
<1>14. ListsInv'
  BY <1>2, <1>6, <1>8, <1>10, <1>11 DEF ListsInv
<1>15. ChannelsInv'
  <2>1. IsFiniteSet(DOMAIN cachemodel') /\ DOMAIN cachemodel' \subseteq Nat
    BY <1>2, <1>12, FS_Subset DEF ChannelsInv
  <2>2. ASSUME NEW x \in DOMAIN open'
        PROVE  open'[x] \in DOMAIN sessions' /\ cachemodel'[x] \in SessionModels(open[x])'
    <3>1. PICK r \in DOMAIN sessions : r = open[x] /\ cachemodel[x] \in SessionModels(r)
      BY <1>2, <1>12 DEF ChannelsInv
    <3>2. cachemodel'[x] = cachemodel[x] /\ open'[x] = r
      BY <1>2, <1>12, <3>1 DEF ChannelsInv
    <3>3. cachemodel'[x] \in SessionModels(r)'
      BY <1>13, <3>1, <3>2
    <3> QED
      BY <1>11, <3>2, <3>3 DEF SessionModels
  <2>3. ASSUME NEW r \in DOMAIN sessions'
        PROVE  Channels(r)' = {x \in DOMAIN open' : open'[x] = r}
    <3>1. CASE r = s
      BY <1>8, <1>10, <1>11, <1>12, <3>1 DEF Channels
    <3>2. CASE r # s
      <4>1. r \in DOMAIN sessions /\ Channels(r)' = Channels(r)
        BY <1>11, <3>2 DEF Channels
      <4> QED
        BY <1>2, <1>5, <1>12, <3>2, <4>1 DEF ChannelsInv
    <3> QED
      BY <3>1, <3>2
  <2> QED
    BY <1>2, <1>12, <2>1, <2>2, <2>3 DEF ChannelsInv
<1>16. msgqueue = Nil /\ Queued = {} /\ ~Served
  BY <1>2, NoQueueYet
<1>17. QueueInv' /\ Queued' = {} /\ ~Served'
  BY <1>2, <1>16, NothingServed
<1>18. ModelsInv'
  BY <1>2, <1>11, <1>13, <1>16, <1>17 DEF ModelsInv
<1>19. UsesInv'
  BY <1>2 DEF UsesInv, Of
<1>20. ClientInv'
  BY <1>2, <1>11, <1>13, <1>16, <1>17, ClientHasSame, ClientHasNext DEF ClientHas, Has
<1>21. CallInv'
  <2>1. ToClose' = ToClose \ {c}
    BY <1>2, <1>12 DEF ToClose
  <2> QED
    BY <1>2, <1>3, <1>5, <1>11, <1>12, <2>1 DEF CallInv, States
<1> QED
  BY <1>14, <1>15, <1>17, <1>18, <1>19, <1>20, <1>21 DEF IInv

\* With the last channel the session goes.
LEMMA CloseEndsKeeps == FilesFit /\ IInv /\ CloseEnds => IInv'
<1>1. SUFFICES ASSUME FilesFit, IInv, CloseEnds PROVE IInv'
  OBVIOUS
<1>2. /\ ListsInv /\ ChannelsInv /\ ModelsInv /\ UsesInv /\ ClientInv /\ QueueInv /\ CallInv
      /\ part = "closing" /\ part' = "respond"
      /\ UNCHANGED <<cachemodel, query, target, cursession, curchannel, msgqueue, open>>
  BY <1>1 DEF IInv, CloseEnds
<1>3. msgqueue = Nil
  BY <1>2, NoQueueYet
<1>4. ListsInv' /\ ChannelsInv' /\ ModelsInv' /\ UsesInv' /\ ClientInv' /\ QueueInv'
  <2>1. CASE sessions[cursession].channels.seq = <<>>
    <3>1. PICK s : s = cursession
      OBVIOUS
    <3>2. s \in DOMAIN sessions /\ DeleteSession(s)
      BY <1>1, <1>2, <2>1, <3>1 DEF CallInv, CloseEnds
    <3>3. Channels(s) = {}
      BY <2>1, <3>1 DEF Channels, ToSet
    <3>4. /\ DOMAIN open' = DOMAIN open \ Channels(s)
          /\ \A c \in DOMAIN open' : open'[c] = open[c]
          /\ DOMAIN cachemodel' = DOMAIN cachemodel \ Channels(s)
          /\ \A c \in DOMAIN cachemodel' : cachemodel'[c] = cachemodel[c]
      BY <1>2, <3>3
    <3> QED
      BY <1>2, <1>3, <3>2, <3>4, DeleteSessionGives
  <2>2. CASE sessions[cursession].channels.seq # <<>>
    <3>1. UNCHANGED <<lists, open, client, msgqueue>>
      BY <1>1, <1>2, <2>2 DEF CloseEnds, lists
    <3> QED
      BY <1>1, <1>3, <3>1, CallsKept
  <2> QED
    BY <2>1, <2>2
<1>5. CallInv'
  BY <1>2 DEF CallInv, States
<1> QED
  BY <1>4, <1>5 DEF IInv

------------------------------------------------------------------------------
\* What is queued for a cache model is what is missing.
LEMMA QueueGives ==
  ASSUME FilesFit, NEW m, FitModel(m), query.view \in Views
  PROVE  /\ \A x \in Queue(m) :
              x.bin \in DOMAIN m.sent /\ x.element \in Missing(m, query.view, x.bin)
         /\ \A b \in DOMAIN m.sent :
              {x.element : x \in {y \in Queue(m) : y.bin = b}} = Missing(m, query.view, b)
         /\ Queue(m) \subseteq Message
<1>1. PICK t \in DOMAIN Files, j \in BOOLEAN : t = m.target /\ j = m.jppstream
  BY DEF FitModel
<1>2. DOMAIN m.sent = Bins(t, j)
  BY <1>1 DEF FitModel
<1>3. ASSUME NEW x \in Queue(m)
      PROVE  /\ x.bin \in DOMAIN m.sent /\ x.element \in Missing(m, query.view, x.bin)
             /\ x \in Message
  <2>1. PICK b \in DOMAIN m.sent :
          \E i \in Missing(m, query.view, b) :
            x = [bin |-> b, element |-> i, last |-> i = Elements(m.target, b)]
    BY DEF Queue
  <2>2. PICK i \in Missing(m, query.view, b) :
          x = [bin |-> b, element |-> i, last |-> i = Elements(m.target, b)]
    BY <2>1
  <2>3. i \in Nat
    <3>1. Wanted(m.target, m.jppstream, query.view, b) \in Int
      BY <1>1, <1>2, WantedFits
    <3> QED
      BY <3>1 DEF Missing
  <2>4. b \in BinNames
    <3>1. Files[t].tiles \subseteq Nat /\ Files[t].res \in Nat
      BY DEF FilesFit
    <3>2. CASE b = Main
      BY <3>2 DEF Bin, Main, BinNames
    <3>3. CASE \E u \in Files[t].tiles : b = <<"head", u, 0>> \/ b = <<"tile", u, 0>>
      BY <3>1, <3>3 DEF BinNames
    <3>4. CASE \E u \in Files[t].tiles : \E r \in 0..(Files[t].res - 1) :
                 b = <<"precinct", u, r>>
      BY <3>1, <3>4 DEF BinNames
    <3> QED
      BY <1>2, <3>2, <3>3, <3>4 DEF Bins, Bin, Main
  <2> QED
    BY <2>2, <2>3, <2>4 DEF Message
<1>4. ASSUME NEW b \in DOMAIN m.sent
      PROVE  {x.element : x \in {y \in Queue(m) : y.bin = b}} = Missing(m, query.view, b)
  <2>1. ASSUME NEW i \in Missing(m, query.view, b)
        PROVE  \E x \in Queue(m) : x.bin = b /\ x.element = i
    <3>1. PICK x : x = [bin |-> b, element |-> i, last |-> i = Elements(m.target, b)]
      OBVIOUS
    <3>2. x \in Queue(m) /\ x.bin = b /\ x.element = i
      BY <3>1 DEF Queue
    <3> QED
      BY <3>2
  <2> QED
    BY <1>3, <2>1
<1> QED
  BY <1>3, <1>4

\* A stateless request: its cache model is in the queue.
LEMMA StreamStatelessKeeps == FilesFit /\ IInv /\ StreamStateless => IInv'
<1>1. SUFFICES ASSUME FilesFit, IInv, StreamStateless PROVE IInv'
  OBVIOUS
<1>2. /\ ListsInv /\ ChannelsInv /\ ModelsInv /\ UsesInv /\ ClientInv /\ QueueInv /\ CallInv
      /\ part = "stream" /\ cursession = Nil /\ uses' = Refer(target)
      /\ UNCHANGED <<sessionlist, sessions, cachemodel, query, target, cursession, curchannel,
                     open, client>>
  BY <1>1 DEF IInv, StreamStateless
<1>3. target \in DOMAIN uses /\ target \in DOMAIN Files /\ query.view \in Views
      /\ query.jpp \in BOOLEAN /\ query \in Query
  BY <1>2 DEF CallInv, UsesInv, Query
<1>4. PICK m : m = Fresh(DOMAIN models)
  OBVIOUS
<1>5. m \in Nat /\ m \notin DOMAIN models
  BY <1>2, <1>4, FreshGives DEF ModelsInv
<1>6. PICK n : n = NewModel(target, query.jpp)
  OBVIOUS
<1>7. FitModel(n) /\ n.target = target
  BY <1>1, <1>3, <1>6, NewModelFits
<1>8. PICK k : k = IF query.box THEN Marked(n) ELSE n
  OBVIOUS
<1>9. FitModel(k) /\ k.target = target
  BY <1>1, <1>3, <1>7, <1>8, MarkedGives
<1>10. PICK Q : Q = IF query.box THEN Queue(n) ELSE {}
  OBVIOUS
<1>11. Q \subseteq Message
  BY <1>1, <1>3, <1>7, <1>10, QueueGives
<1>12. /\ msgqueue' = [stateless |-> TRUE, model |-> m, messages |-> Q]
       /\ models' = With(models, m, k)
       /\ part' = IF query.box THEN "respond" ELSE "failed"
  BY <1>1, <1>4, <1>6, <1>8, <1>10 DEF StreamStateless, StreamInto
<1>13. /\ msgqueue' # Nil /\ msgqueue'.stateless = TRUE /\ msgqueue'.model = m
       /\ msgqueue'.messages = Q
  <2>1. [stateless |-> TRUE, model |-> m, messages |-> Q] \in MsgQueue
    BY <1>5, <1>11 DEF MsgQueue
  <2> QED
    BY <1>1, <1>12, <2>1 DEF FilesFit
<1>14. Queued' = {m} /\ ~Served'
  BY <1>13 DEF Queued, Served
<1>15. /\ DOMAIN models' = DOMAIN models \cup {m} /\ models'[m] = k
       /\ \A x \in DOMAIN models : models'[x] = models[x]
  BY <1>5, <1>12 DEF With
<1>16. ~Served /\ Queued = {}
  BY <1>2, NoQueueYet
<1>17. \A s \in DOMAIN sessions : SessionModels(s)' = SessionModels(s)
  BY <1>2 DEF SessionModels
<1>18. ListsInv'
  BY <1>2 DEF ListsInv
<1>19. ChannelsInv'
  BY <1>2 DEF ChannelsInv, Channels, SessionModels
<1>20. ModelsInv'
  <2>1. DOMAIN models' \subseteq Nat /\ IsFiniteSet(DOMAIN models')
    BY <1>2, <1>5, <1>15, FS_AddElement DEF ModelsInv
  <2>2. \A x \in DOMAIN models' : FitModel(models'[x])
    BY <1>2, <1>9, <1>15 DEF ModelsInv
  <2>3. DOMAIN models' \ Queued' = DOMAIN models
    BY <1>5, <1>14, <1>15
  <2>4. \A s \in DOMAIN sessions : \A x \in SessionModels(s) : models'[x] = models[x]
    BY <1>2, <1>15 DEF ModelsInv
  <2>5. \A s \in DOMAIN sessions' : \A m1, m2 \in SessionModels(s)' :
          models'[m1].target = models'[m2].target => m1 = m2
    BY <1>2, <1>17, <2>4 DEF ModelsInv
  <2>6. \A s \in DOMAIN sessions' : SessionModels(s)' \subseteq DOMAIN models' \ Queued'
    BY <1>2, <1>16, <1>17, <2>3 DEF ModelsInv
  <2>7. \A x \in DOMAIN models' \ Queued' : \E s \in DOMAIN sessions' : x \in SessionModels(s)'
    BY <1>2, <1>16, <1>17, <2>3 DEF ModelsInv
  <2>8. \A s1, s2 \in DOMAIN sessions' :
          SessionModels(s1)' \cap SessionModels(s2)' # {} => s1 = s2
    BY <1>2, <1>17 DEF ModelsInv
  <2>9. Queued' \subseteq DOMAIN models'
    BY <1>14, <1>15
  <2> QED
    BY <2>1, <2>2, <2>5, <2>6, <2>7, <2>8, <2>9 DEF ModelsInv
<1>21. UsesInv'
  BY <1>2, <1>3, <1>5, <1>9, <1>12, ReferGives
<1>22. ClientInv'
  <2>1. \A s \in DOMAIN sessions : \A x \in SessionModels(s) : models'[x] = models[x]
    BY <1>2, <1>15 DEF ModelsInv
  <2>2. ClientHas
    BY <1>2, <1>16, ClientHasSame
  <2>3. ClientHas'
    BY <1>2, <1>17, <2>1, <2>2 DEF ClientHas, Has
  <2> QED
    BY <1>14, <2>3, ClientHasNext
<1>23. QueueInv'
  BY <1>10, <1>12, <1>13, <1>14 DEF QueueInv, NothingTwice
<1>24. CallInv'
  BY <1>2, <1>3, <1>12 DEF CallInv, States
<1> QED
  BY <1>18, <1>19, <1>20, <1>21, <1>22, <1>23, <1>24 DEF IInv

------------------------------------------------------------------------------
\* A request in a session: what is queued is marked in the cache model.
LEMMA StreamSessionKeeps == FilesFit /\ IInv /\ StreamSession => IInv'
<1>1. SUFFICES ASSUME FilesFit, IInv, StreamSession PROVE IInv'
  OBVIOUS
<1>2. /\ ListsInv /\ ChannelsInv /\ ModelsInv /\ UsesInv /\ ClientInv /\ QueueInv /\ CallInv
      /\ part = "stream" /\ cursession # Nil
      /\ UNCHANGED <<uses, sessionlist, sessions, cachemodel, query, target, cursession,
                     curchannel, open, client>>
  BY <1>1 DEF IInv, StreamSession
<1>3. query.view \in Views /\ query \in Query
  BY <1>2 DEF CallInv
<1>4. PICK id, s : id = cachemodel[curchannel] /\ s = cursession
  OBVIOUS
<1>5. s \in DOMAIN sessions /\ id \in SessionModels(s)
  <2>1. curchannel \in DOMAIN open /\ open[curchannel] = s
    BY <1>2, <1>4 DEF CallInv, OfSession
  <2> QED
    BY <1>2, <1>4, <2>1 DEF ChannelsInv
<1>6. id \in DOMAIN models /\ id \in Nat
  BY <1>2, <1>5 DEF ModelsInv
<1>7. PICK n : n = models[id]
  OBVIOUS
<1>8. FitModel(n)
  BY <1>2, <1>6, <1>7 DEF ModelsInv
<1>9. PICK k : k = IF query.box THEN Marked(n) ELSE n
  OBVIOUS
<1>10. PICK Q : Q = IF query.box THEN Queue(n) ELSE {}
  OBVIOUS
<1>11. /\ FitModel(k) /\ k.target = n.target /\ k.jppstream = n.jppstream
       /\ DOMAIN k.sent = DOMAIN n.sent
  BY <1>1, <1>3, <1>8, <1>9, MarkedGives
<1>12. /\ Q \subseteq Message
       /\ \A x \in Q : x.bin \in DOMAIN n.sent /\ x.element \notin n.sent[x.bin]
  BY <1>1, <1>3, <1>8, <1>10, QueueGives DEF Missing
<1>13. ASSUME NEW b \in DOMAIN n.sent
       PROVE  k.sent[b] = n.sent[b] \cup {x.element : x \in {y \in Q : y.bin = b}}
  <2>1. CASE query.box
    <3>1. {x.element : x \in {y \in Q : y.bin = b}} = Missing(n, query.view, b)
      BY <1>1, <1>3, <1>8, <1>10, <1>13, <2>1, QueueGives
    <3>2. k.sent[b] = n.sent[b] \cup Missing(n, query.view, b)
      BY <1>1, <1>3, <1>8, <1>9, <1>13, <2>1, MarkedGives
    <3> QED
      BY <3>1, <3>2
  <2>2. CASE ~query.box
    <3>1. k = n /\ Q = {}
      BY <1>9, <1>10, <2>2
    <3> QED
      BY <3>1
  <2> QED
    BY <2>1, <2>2
<1>14. /\ msgqueue' = [stateless |-> FALSE, model |-> id, messages |-> Q]
       /\ models' = With(models, id, k)
       /\ part' = IF query.box THEN "respond" ELSE "failed"
  BY <1>1, <1>4, <1>7, <1>9, <1>10 DEF StreamSession, StreamInto
<1>15. /\ msgqueue' # Nil /\ msgqueue'.stateless = FALSE /\ msgqueue'.model = id
       /\ msgqueue'.messages = Q
  <2>1. [stateless |-> FALSE, model |-> id, messages |-> Q] \in MsgQueue
    BY <1>6, <1>12 DEF MsgQueue
  <2> QED
    BY <1>1, <1>14, <2>1 DEF FilesFit
<1>16. Queued' = {} /\ Served'
  BY <1>15 DEF Queued, Served
<1>17. ~Served /\ Queued = {}
  BY <1>2, NoQueueYet
<1>18. /\ DOMAIN models' = DOMAIN models /\ models'[id] = k
       /\ \A x \in DOMAIN models : x # id => models'[x] = models[x]
  BY <1>6, <1>14 DEF With
<1>19. \A x \in DOMAIN models : models'[x].target = models[x].target
  BY <1>7, <1>11, <1>18
<1>20. \A r \in DOMAIN sessions : SessionModels(r)' = SessionModels(r)
  BY <1>2 DEF SessionModels
<1>21. ListsInv'
  BY <1>2 DEF ListsInv
<1>22. ChannelsInv'
  BY <1>2 DEF ChannelsInv, Channels, SessionModels
<1>23. ModelsInv'
  <2>1. \A x \in DOMAIN models' : FitModel(models'[x])
    BY <1>2, <1>11, <1>18 DEF ModelsInv
  <2>2. \A r \in DOMAIN sessions' : \A m1, m2 \in SessionModels(r)' :
          models'[m1].target = models'[m2].target => m1 = m2
    <3>1. \A r \in DOMAIN sessions : SessionModels(r) \subseteq DOMAIN models
      BY <1>2 DEF ModelsInv
    <3> QED
      BY <1>2, <1>19, <1>20, <3>1 DEF ModelsInv
  <2>3. \A r \in DOMAIN sessions' : SessionModels(r)' \subseteq DOMAIN models' \ Queued'
    BY <1>2, <1>16, <1>18, <1>20 DEF ModelsInv
  <2>4. \A x \in DOMAIN models' \ Queued' : \E r \in DOMAIN sessions' : x \in SessionModels(r)'
    BY <1>2, <1>17, <1>18, <1>20 DEF ModelsInv
  <2>5. \A s1, s2 \in DOMAIN sessions' :
          SessionModels(s1)' \cap SessionModels(s2)' # {} => s1 = s2
    BY <1>2, <1>20 DEF ModelsInv
  <2> QED
    BY <1>2, <1>16, <1>18, <2>1, <2>2, <2>3, <2>4, <2>5 DEF ModelsInv
<1>24. UsesInv'
  <2>1. \A t : Of(t)' = {m \in DOMAIN models : models[m].target = t}
    BY <1>18, <1>19 DEF Of
  <2>2. \A t \in DOMAIN uses' : uses'[t] = Cardinality(Of(t)')
    BY <1>2, <2>1 DEF UsesInv, Of
  <2> QED
    BY <1>2, <1>18, <1>19, <2>2 DEF UsesInv
<1>25. ASSUME NEW r \in DOMAIN sessions, NEW x \in SessionModels(r)
       PROVE  /\ <<r, models'[x].target>> \in DOMAIN client
              /\ client[<<r, models'[x].target>>] =
                   [b \in DOMAIN models'[x].sent |-> client[<<r, models'[x].target>>][b]]
              /\ \A b \in DOMAIN models'[x].sent :
                   models'[x].sent[b] = client[<<r, models'[x].target>>][b] \cup Pending(x, b)'
  <2>1. x \in DOMAIN models
    BY <1>2, <1>25 DEF ModelsInv
  <2>2. /\ <<r, models[x].target>> \in DOMAIN client
        /\ Has(r, x) = [b \in DOMAIN models[x].sent |-> Has(r, x)[b]]
        /\ \A b \in DOMAIN models[x].sent : models[x].sent[b] = Has(r, x)[b]
    BY <1>2, <1>17, <1>25, ClientHasSame DEF ClientHas
  <2>3. CASE x = id
    <3>1. models[x] = n /\ models'[x] = k
      BY <1>7, <1>18, <2>3
    <3>2. \A b : Pending(x, b)' = {z.element : z \in {y \in Q : y.bin = b}}
      BY <1>15, <1>16, <2>3 DEF Pending
    <3>3. /\ Has(r, x) = client[<<r, k.target>>] /\ <<r, k.target>> \in DOMAIN client
      BY <1>11, <2>2, <3>1 DEF Has
    <3> QED
      BY <1>11, <1>13, <2>2, <3>1, <3>2, <3>3
  <2>4. CASE x # id
    <3>1. models'[x] = models[x]
      BY <1>18, <2>1, <2>4
    <3>2. \A b : Pending(x, b)' = {}
      BY <1>15, <2>4 DEF Pending
    <3> QED
      BY <2>2, <3>1, <3>2 DEF Has
  <2> QED
    BY <2>3, <2>4
<1>26. ClientInv'
  <2>1. \A r, x : Has(r, x)' = client[<<r, models'[x].target>>]
    BY <1>2 DEF Has
  <2>2. SUFFICES ASSUME NEW r \in DOMAIN sessions', NEW x \in SessionModels(r)'
        PROVE  /\ <<r, models'[x].target>> \in DOMAIN client'
               /\ Has(r, x)' = [b \in DOMAIN models'[x].sent |-> Has(r, x)'[b]]
               /\ \A b \in DOMAIN models'[x].sent :
                    models'[x].sent[b] = Has(r, x)'[b] \cup Pending(x, b)'
    BY DEF ClientInv
  <2>3. r \in DOMAIN sessions /\ x \in SessionModels(r)
    BY <1>2, <1>20, <2>2
  <2> QED
    BY <1>2, <1>25, <2>1, <2>3
<1>27. NothingTwice'
  <2>1. PICK h : h = client[<<s, n.target>>]
    OBVIOUS
  <2>2. DOMAIN h = DOMAIN n.sent /\ \A b \in DOMAIN n.sent : n.sent[b] = h[b]
    BY <1>2, <1>5, <1>7, <1>17, <2>1, ClientHasSame DEF ClientHas, Has
  <2>3. SUFFICES ASSUME part' = "respond"
        PROVE  /\ \A x \in Q : x.element \notin h[x.bin]
               /\ \A b \in DOMAIN h :
                    LET has == h[b] \cup {x.element : x \in {y \in Q : y.bin = b}}
                    IN  /\ 1..Wanted(k.target, k.jppstream, query.view, b) \subseteq has
                        /\ \E l \in 0..Elements(k.target, b) : has = 1..l
    <3>1. client'[Key'] = h
      BY <1>2, <1>4, <1>11, <1>15, <1>18, <2>1 DEF Key
    <3>2. models'[msgqueue'.model] = k /\ query' = query /\ msgqueue'.messages = Q
      BY <1>2, <1>15, <1>18
    <3>3. \A b : Pending(msgqueue.model, b)' = {x.element : x \in {y \in Q : y.bin = b}}
      BY <1>15, <1>16 DEF Pending
    <3> QED
      BY <3>1, <3>2, <3>3 DEF NothingTwice
  <2>4. query.box
    BY <1>14, <2>3
  <2>5. \A x \in Q : x.element \notin h[x.bin]
    BY <1>12, <2>2
  <2>6. ASSUME NEW b \in DOMAIN h
        PROVE  LET has == h[b] \cup {x.element : x \in {y \in Q : y.bin = b}}
               IN  /\ 1..Wanted(k.target, k.jppstream, query.view, b) \subseteq has
                   /\ \E l \in 0..Elements(k.target, b) : has = 1..l
    <3>1. k.sent[b] = h[b] \cup {x.element : x \in {y \in Q : y.bin = b}}
      BY <1>13, <2>2
    <3>2. 1..Wanted(k.target, k.jppstream, query.view, b) \subseteq k.sent[b]
      BY <1>1, <1>3, <1>8, <1>9, <1>11, <2>2, <2>4, MarkedGives
    <3>3. \E l \in 0..Elements(k.target, b) : k.sent[b] = 1..l
      BY <1>11, <2>2 DEF FitModel
    <3> QED
      BY <3>1, <3>2, <3>3
  <2> QED
    BY <2>5, <2>6
<1>28. QueueInv'
  <2>1. part' = "failed" => Q = {}
    BY <1>10, <1>14
  <2>2. part' \in {"respond", "failed"}
    BY <1>14
  <2>3. cursession' \in DOMAIN sessions' /\ msgqueue'.model \in SessionModels(cursession)'
    BY <1>2, <1>4, <1>5, <1>15 DEF SessionModels
  <2> QED
    BY <1>15, <1>27, <2>1, <2>2, <2>3 DEF QueueInv
<1>29. CallInv'
  BY <1>2, <1>3, <1>14 DEF CallInv, States
<1> QED
  BY <1>21, <1>22, <1>23, <1>24, <1>26, <1>28, <1>29 DEF IInv

\* What remains when the queue has gone.
LEMMA EndGives ==
  ASSUME ListsInv, ChannelsInv, ModelsInv, UsesInv, QueueInv, EndQRprocess
  PROVE  /\ ListsInv' /\ ChannelsInv' /\ ModelsInv' /\ UsesInv' /\ QueueInv' /\ CallInv'
         /\ ~Served' /\ DOMAIN sessions' = DOMAIN sessions
         /\ \A s \in DOMAIN sessions : SessionModels(s)' = SessionModels(s)
         /\ \A s \in DOMAIN sessions : \A x \in SessionModels(s) : models'[x] = models[x]
<1>1. /\ uses' = Unrefer(Queued) /\ models' = Minus(models, Queued)
      /\ msgqueue' = Nil /\ query' = NoQuery /\ target' = Nil
      /\ cursession' = Nil /\ curchannel' = Nil /\ part' = "idle"
      /\ UNCHANGED <<sessionlist, sessions, cachemodel, open>>
  BY DEF EndQRprocess, Queued
<1>2. QueueInv' /\ Queued' = {} /\ ~Served'
  BY <1>1, NothingServed
<1>3. /\ UsesInv' /\ DOMAIN models' = DOMAIN models \ Queued
      /\ \A x \in DOMAIN models \ Queued : models'[x] = models[x]
  <2>1. IsFiniteSet(DOMAIN models) /\ Queued \subseteq DOMAIN models
    BY DEF ModelsInv
  <2> QED
    BY <1>1, <2>1, UnreferGives
<1>4. \A s \in DOMAIN sessions : SessionModels(s)' = SessionModels(s)
  BY <1>1 DEF SessionModels
<1>5. \A s \in DOMAIN sessions : \A x \in SessionModels(s) :
        x \in DOMAIN models \ Queued /\ models'[x] = models[x]
  BY <1>3 DEF ModelsInv
<1>6. ListsInv'
  BY <1>1 DEF ListsInv
<1>7. ChannelsInv'
  BY <1>1 DEF ChannelsInv, Channels, SessionModels
<1>8. ModelsInv'
  <2>1. DOMAIN models' \subseteq Nat /\ IsFiniteSet(DOMAIN models')
    BY <1>3, FS_Subset DEF ModelsInv
  <2>2. \A x \in DOMAIN models' : FitModel(models'[x])
    BY <1>3 DEF ModelsInv
  <2>3. \A s \in DOMAIN sessions' : SessionModels(s)' \subseteq DOMAIN models' \ Queued'
    BY <1>1, <1>2, <1>3, <1>4, <1>5
  <2>4. \A x \in DOMAIN models' \ Queued' : \E s \in DOMAIN sessions' : x \in SessionModels(s)'
    BY <1>1, <1>3, <1>4 DEF ModelsInv
  <2>5. \A s1, s2 \in DOMAIN sessions' :
          SessionModels(s1)' \cap SessionModels(s2)' # {} => s1 = s2
    BY <1>1, <1>4 DEF ModelsInv
  <2>6. \A s \in DOMAIN sessions' : \A m1, m2 \in SessionModels(s)' :
          models'[m1].target = models'[m2].target => m1 = m2
    BY <1>1, <1>4, <1>5 DEF ModelsInv
  <2> QED
    BY <1>2, <2>1, <2>2, <2>3, <2>4, <2>5, <2>6 DEF ModelsInv
<1>9. CallInv'
  BY <1>1 DEF CallInv, States, Query, NoQuery
<1> QED
  BY <1>1, <1>2, <1>3, <1>4, <1>5, <1>6, <1>7, <1>8, <1>9

\* The answer held what was marked.
LEMMA RespondKeeps == FilesFit /\ IInv /\ Respond => IInv'
<1>1. SUFFICES ASSUME FilesFit, IInv, Respond PROVE IInv'
  OBVIOUS
<1>2. ListsInv /\ ChannelsInv /\ ModelsInv /\ UsesInv /\ ClientInv /\ QueueInv
  BY <1>1 DEF IInv
<1>3. EndQRprocess
  BY <1>1 DEF Respond
<1>4. /\ ListsInv' /\ ChannelsInv' /\ ModelsInv' /\ UsesInv' /\ QueueInv' /\ CallInv'
      /\ ~Served' /\ DOMAIN sessions' = DOMAIN sessions
      /\ \A s \in DOMAIN sessions : SessionModels(s)' = SessionModels(s)
      /\ \A s \in DOMAIN sessions : \A x \in SessionModels(s) : models'[x] = models[x]
  BY <1>2, <1>3, EndGives
<1>5. ASSUME NEW s \in DOMAIN sessions, NEW x \in SessionModels(s)
      PROVE  /\ <<s, models[x].target>> \in DOMAIN client'
             /\ client'[<<s, models[x].target>>] =
                  [b \in DOMAIN models[x].sent |-> client'[<<s, models[x].target>>][b]]
             /\ \A b \in DOMAIN models[x].sent :
                  models[x].sent[b] = client'[<<s, models[x].target>>][b]
  <2>1. /\ <<s, models[x].target>> \in DOMAIN client
        /\ Has(s, x) = [b \in DOMAIN models[x].sent |-> Has(s, x)[b]]
        /\ \A b \in DOMAIN models[x].sent : models[x].sent[b] = Has(s, x)[b] \cup Pending(x, b)
    BY <1>2, <1>5 DEF ClientInv
  <2>2. CASE ~Served
    <3>1. client' = client /\ \A b : Pending(x, b) = {}
      BY <1>1, <2>2 DEF Respond, Pending
    <3> QED
      BY <2>1, <3>1 DEF Has
  <2>3. CASE Served
    <3>1. /\ cursession \in DOMAIN sessions
          /\ msgqueue.model \in SessionModels(cursession)
      BY <1>2, <2>3 DEF QueueInv
    <3>2. PICK h : h = [b \in DOMAIN client[Key] |-> client[Key][b] \cup
                          {i.element : i \in {y \in msgqueue.messages : y.bin = b}}]
      OBVIOUS
    <3>3. client' = [client EXCEPT ![Key] = h]
      BY <1>1, <2>3, <3>2 DEF Respond
    <3>4. CASE x = msgqueue.model
      <4>1. s = cursession
        BY <1>2, <1>5, <3>1, <3>4 DEF ModelsInv
      <4>2. <<s, models[x].target>> = Key /\ client[Key] = Has(s, x)
        BY <3>4, <4>1 DEF Key, Has
      <4>3. client'[<<s, models[x].target>>] = h /\ <<s, models[x].target>> \in DOMAIN client'
        BY <2>1, <3>3, <4>2
      <4>4. \A b : Pending(x, b) = {i.element : i \in {y \in msgqueue.messages : y.bin = b}}
        BY <2>3, <3>4 DEF Pending
      <4>5. /\ DOMAIN h = DOMAIN models[x].sent /\ h = [b \in DOMAIN h |-> h[b]]
            /\ \A b \in DOMAIN models[x].sent : h[b] = models[x].sent[b]
        BY <2>1, <3>2, <4>2, <4>4
      <4> QED
        BY <4>3, <4>5
    <3>5. CASE x # msgqueue.model
      <4>1. <<s, models[x].target>> # Key
        <5>1. s = cursession => models[x].target # models[msgqueue.model].target
          BY <1>2, <1>5, <3>1, <3>5 DEF ModelsInv
        <5> QED
          BY <5>1 DEF Key
      <4>2. /\ client'[<<s, models[x].target>>] = Has(s, x)
            /\ <<s, models[x].target>> \in DOMAIN client'
        BY <2>1, <3>3, <4>1 DEF Has
      <4>3. \A b : Pending(x, b) = {}
        BY <3>5 DEF Pending
      <4> QED
        BY <2>1, <4>2, <4>3
    <3> QED
      BY <3>4, <3>5
  <2> QED
    BY <2>2, <2>3
<1>6. ClientHas'
  BY <1>4, <1>5 DEF ClientHas, Has
<1> QED
  BY <1>4, <1>6, ClientHasNext DEF IInv

\* A request that fails has queued nothing.
LEMMA FailKeeps == FilesFit /\ IInv /\ Fail => IInv'
<1>1. SUFFICES ASSUME FilesFit, IInv, Fail PROVE IInv'
  OBVIOUS
<1>2. /\ ListsInv /\ ChannelsInv /\ ModelsInv /\ UsesInv /\ ClientInv /\ QueueInv
      /\ part = "failed" /\ EndQRprocess /\ UNCHANGED client
  BY <1>1 DEF IInv, Fail
<1>3. /\ ListsInv' /\ ChannelsInv' /\ ModelsInv' /\ UsesInv' /\ QueueInv' /\ CallInv'
      /\ ~Served' /\ DOMAIN sessions' = DOMAIN sessions
      /\ \A s \in DOMAIN sessions : SessionModels(s)' = SessionModels(s)
      /\ \A s \in DOMAIN sessions : \A x \in SessionModels(s) : models'[x] = models[x]
  BY <1>2, EndGives
<1>4. \A x, b : Pending(x, b) = {}
  BY <1>2 DEF Pending, Served, QueueInv
<1>5. ASSUME NEW s \in DOMAIN sessions, NEW x \in SessionModels(s)
      PROVE  /\ <<s, models[x].target>> \in DOMAIN client
             /\ Has(s, x) = [b \in DOMAIN models[x].sent |-> Has(s, x)[b]]
             /\ \A b \in DOMAIN models[x].sent : models[x].sent[b] = Has(s, x)[b]
  <2>1. /\ <<s, models[x].target>> \in DOMAIN client
        /\ Has(s, x) = [b \in DOMAIN models[x].sent |-> Has(s, x)[b]]
        /\ \A b \in DOMAIN models[x].sent : models[x].sent[b] = Has(s, x)[b] \cup Pending(x, b)
    BY <1>2, <1>5 DEF ClientInv
  <2> QED
    BY <1>4, <2>1
<1>6. ClientHas'
  BY <1>2, <1>3, <1>5 DEF ClientHas, Has
<1> QED
  BY <1>3, <1>6, ClientHasNext DEF IInv

\* Nothing is left of the sessions, and no target is referred to.
LEMMA TerminateKeeps == FilesFit /\ IInv /\ Terminate => IInv'
<1>1. SUFFICES ASSUME FilesFit, IInv, Terminate PROVE IInv'
  OBVIOUS
<1>2. /\ ListsInv /\ ChannelsInv /\ ModelsInv /\ UsesInv /\ ClientInv /\ QueueInv /\ CallInv
      /\ part = "idle" /\ part' = "terminated"
      /\ sessionlist' = EmptyList /\ sessions' = <<>> /\ cachemodel' = <<>>
      /\ open' = <<>> /\ client' = <<>>
      /\ UNCHANGED <<query, target, cursession, curchannel, msgqueue>>
  BY <1>1 DEF IInv, Terminate
<1>3. msgqueue = Nil /\ Queued = {}
  BY <1>2, NoQueueYet
<1>4. QueueInv' /\ Queued' = {} /\ ~Served'
  BY <1>2, <1>3, NothingServed
<1>5. PICK G : G = UNION {SessionModels(s) : s \in ToSet(sessionlist.seq)}
  OBVIOUS
<1>6. uses' = Unrefer(G) /\ models' = Minus(models, G)
  BY <1>1, <1>5 DEF Terminate, SessionModels
<1>7. G = DOMAIN models
  <2>1. G = UNION {SessionModels(s) : s \in DOMAIN sessions}
    BY <1>2, <1>5 DEF ListsInv
  <2>2. \A s \in DOMAIN sessions : SessionModels(s) \subseteq DOMAIN models
    BY <1>2 DEF ModelsInv
  <2>3. \A m \in DOMAIN models : \E s \in DOMAIN sessions : m \in SessionModels(s)
    BY <1>2, <1>3 DEF ModelsInv
  <2> QED
    BY <2>1, <2>2, <2>3
<1>8. UsesInv' /\ DOMAIN models' = {}
  <2>1. IsFiniteSet(DOMAIN models)
    BY <1>2 DEF ModelsInv
  <2>2. UsesInv' /\ DOMAIN models' = DOMAIN models \ G
    BY <1>2, <1>6, <1>7, <2>1, UnreferGives
  <2> QED
    BY <1>7, <2>2
<1>9. DOMAIN sessions' = {} /\ DOMAIN cachemodel' = {} /\ DOMAIN open' = {}
  BY <1>2
<1>10. ListsInv'
  BY <1>2, <1>9, EmptyListGood, FS_EmptySet DEF ListsInv
<1>11. ChannelsInv'
  BY <1>9, FS_EmptySet DEF ChannelsInv
<1>12. ModelsInv'
  BY <1>4, <1>8, <1>9, FS_EmptySet DEF ModelsInv
<1>13. ClientInv'
  BY <1>9 DEF ClientInv
<1>14. CallInv'
  BY <1>2 DEF CallInv, States
<1> QED
  BY <1>4, <1>8, <1>10, <1>11, <1>12, <1>13, <1>14 DEF IInv

\* Where nothing is kept there is nothing to be wrong.
Nothing ==
  /\ uses = <<>> /\ sessionlist = EmptyList /\ sessions = <<>> /\ cachemodel = <<>>
  /\ models = <<>> /\ open = <<>> /\ msgqueue = Nil /\ query = NoQuery
  /\ part \in {"idle", "crashed"}
LEMMA NothingFits == FilesFit /\ Nothing => IInv
<1> SUFFICES ASSUME FilesFit, Nothing PROVE IInv
  OBVIOUS
<1> USE DEF Nothing
<1>1. /\ DOMAIN sessions = {} /\ DOMAIN cachemodel = {} /\ DOMAIN open = {}
      /\ DOMAIN models = {} /\ DOMAIN uses = {}
  OBVIOUS
<1>2. ~Served /\ Queued = {}
  BY DEF Served, Queued
<1>3. ListsInv
  BY <1>1, EmptyListGood, FS_EmptySet DEF ListsInv
<1>4. ChannelsInv
  BY <1>1, FS_EmptySet DEF ChannelsInv
<1>5. ModelsInv
  BY <1>1, <1>2, FS_EmptySet DEF ModelsInv
<1>6. UsesInv
  BY <1>1 DEF UsesInv
<1>7. ClientInv
  BY <1>1 DEF ClientInv
<1>8. QueueInv
  BY <1>2 DEF QueueInv, NothingTwice
<1>9. CallInv
  BY DEF CallInv, States, Query, NoQuery
<1> QED
  BY <1>3, <1>4, <1>5, <1>6, <1>7, <1>8, <1>9 DEF IInv

\* In the beginning there is nothing.
LEMMA InitHolds == FilesFit /\ ServerInit => IInv
BY NothingFits DEF ServerInit, Nothing

\* When the server ends in the middle of an answer, nothing is left.
LEMMA CrashKeeps == FilesFit /\ IInv /\ Crash => IInv'
<1>1. SUFFICES ASSUME FilesFit, Crash PROVE IInv'
  OBVIOUS
<1>2. FilesFit' /\ Nothing' => IInv'
  BY NothingFits, PTL
<1>3. FilesFit' /\ Nothing'
  BY <1>1 DEF Crash, Nothing, FilesFit
<1> QED
  BY <1>2, <1>3

\* A step that changes nothing.
LEMMA StutterKeeps == IInv /\ UNCHANGED serverVars => IInv'
<1>1. SUFFICES ASSUME IInv, UNCHANGED serverVars PROVE IInv'
  OBVIOUS
<1>2. ListsInv' /\ ChannelsInv' /\ ModelsInv' /\ ClientInv'
  <2>1. UNCHANGED <<sessionlist, sessions, cachemodel, models, msgqueue, open, client>>
    BY <1>1 DEF serverVars
  <2>2. Served' = Served
    BY <2>1 DEF Served
  <2> QED
    BY <1>1, <2>1, <2>2, ListsKept DEF IInv
<1>3. UsesInv'
  BY <1>1 DEF IInv, UsesInv, Of, serverVars
<1>4. QueueInv'
  BY <1>1 DEF IInv, QueueInv, NothingTwice, Served, Key, Pending, SessionModels, serverVars
<1>5. CallInv'
  BY <1>1 DEF IInv, CallInv, OfSession, ToClose, serverVars
<1> QED
  BY <1>2, <1>3, <1>4, <1>5 DEF IInv

\* Every step of the server keeps the invariant.
LEMMA NextKeeps == FilesFit /\ IInv /\ [ServerNext]_serverVars => IInv'
<1>1. SUFFICES ASSUME FilesFit, IInv, [ServerNext]_serverVars PROVE IInv'
  OBVIOUS
<1>2. CASE UNCHANGED serverVars
  BY <1>1, <1>2, StutterKeeps
<1>3. CASE Request
  BY <1>1, <1>3, RequestKeeps
<1>4. CASE OpenSession \/ OpenTarget \/ OpenShared
  BY <1>1, <1>4, OpenSessionKeeps, OpenTargetKeeps, OpenSharedKeeps
<1>5. CASE CloseAll \/ CloseListed \/ CloseOne \/ CloseEnds \/ CloseRefused
  BY <1>1, <1>5, CloseAllKeeps, CloseListedKeeps, CloseOneKeeps, CloseEndsKeeps,
     CloseRefusedKeeps
<1>6. CASE StreamStateless \/ StreamSession
  BY <1>1, <1>6, StreamStatelessKeeps, StreamSessionKeeps
<1>7. CASE Respond \/ Fail
  BY <1>1, <1>7, RespondKeeps, FailKeeps
<1>8. CASE Crash \/ Terminate
  BY <1>1, <1>8, CrashKeeps, TerminateKeeps
<1> QED
  BY <1>1, <1>2, <1>3, <1>4, <1>5, <1>6, <1>7, <1>8 DEF ServerNext

\* What the invariant says of the server.
LEMMA IInvSound == FilesFit /\ IInv => ServerSound
<1>1. SUFFICES ASSUME FilesFit, IInv PROVE ServerSound
  OBVIOUS
<1>2. ListsInv /\ ChannelsInv /\ ModelsInv /\ UsesInv /\ ClientInv /\ QueueInv
  BY <1>1 DEF IInv
<1>3. TargetsCounted
  <2>1. ASSUME NEW m \in DOMAIN models \ Queued
        PROVE  Cardinality({s \in DOMAIN sessions : m \in SessionModels(s)}) = 1
    <3>1. PICK s \in DOMAIN sessions : m \in SessionModels(s)
      BY <1>2, <2>1 DEF ModelsInv
    <3>2. {r \in DOMAIN sessions : m \in SessionModels(r)} = {s}
      BY <1>2, <3>1 DEF ModelsInv
    <3> QED
      BY <3>2, FS_Singleton
  <2>2. \A t \in DOMAIN uses :
          uses[t] = Cardinality({m \in DOMAIN models : models[m].target = t})
    BY <1>2 DEF UsesInv, Of
  <2>3. ToSet(sessionlist.seq) = DOMAIN sessions
    BY <1>2 DEF ListsInv
  <2> QED
    BY <2>1, <2>2, <2>3 DEF TargetsCounted
<1>4. ChannelsFound
  <2>1. \A c \in DOMAIN open : SessionOf(c) = open[c]
    BY <1>2, SessionOfGives
  <2> QED
    BY <1>2, <2>1 DEF ChannelsFound, ChannelsInv
<1>5. ModelIsClients
  <2>1. SUFFICES ASSUME part = "idle", NEW s \in DOMAIN sessions, NEW m \in SessionModels(s)
        PROVE  models[m].sent = Has(s, m)
    BY DEF ModelIsClients
  <2>2. ClientHas
    BY <1>2, <2>1, NoQueueYet, ClientHasSame
  <2>3. /\ Has(s, m) = [b \in DOMAIN models[m].sent |-> Has(s, m)[b]]
        /\ \A b \in DOMAIN models[m].sent : models[m].sent[b] = Has(s, m)[b]
    BY <2>1, <2>2 DEF ClientHas
  <2>4. FitModel(models[m])
    BY <1>2, <2>1 DEF ModelsInv
  <2>5. models[m].sent = [b \in DOMAIN models[m].sent |-> models[m].sent[b]]
    BY <2>4 DEF FitModel
  <2> QED
    BY <2>3, <2>5
<1>6. NothingTwice
  BY <1>2 DEF QueueInv
<1> QED
  BY <1>3, <1>4, <1>5, <1>6 DEF ServerSound

\* Whatever is requested, in whatever order channels are opened and closed:
\* a target counts the cache models that refer to it, each of which is in one
\* session or in the queue; every open channel is found in its session with a
\* cache model of it; and a cache model is what the answers held, so nothing is
\* put in twice or left out (open_channel, close_channel, gene_JPIPstream,
\* end_QRprocess).
THEOREM ServerCorrect == ServerSpec => []ServerSound
<1>1. ServerInit => IInv
  BY InitHolds, JpipServerAssumption
<1>2. IInv /\ [ServerNext]_serverVars => IInv'
  BY NextKeeps, JpipServerAssumption
<1>3. IInv => ServerSound
  BY IInvSound, JpipServerAssumption
<1> QED
  BY <1>1, <1>2, <1>3, PTL DEF ServerSpec

------------------------------------------------------------------------------
\* A channel that is opened is the one that the answer reads.
LEMMA OpenInHolds ==
  ASSUME CallInv, part = "open", NEW s, NEW list, NEW m, OpenIn(s, list, m),
         UNCHANGED query, ChannelsInv
  PROVE  HeldInv'
<1>1. ~query.all /\ query.cclose = {}
  BY DEF CallInv
<1>2. part' \in {"stream", "respond"}
  BY <1>1 DEF OpenIn, AfterOpen
<1>3. channel' \in DOMAIN open' /\ channel' \in DOMAIN cachemodel'
  BY DEF OpenIn, With
<1> QED
  BY <1>1, <1>2, <1>3 DEF HeldInv, ChannelKept

\* The channel of a request is found, in its session.
LEMMA RequestHolds == FilesFit /\ IInv /\ Request => HeldInv'
<1>1. SUFFICES ASSUME FilesFit, IInv, Request PROVE HeldInv'
  OBVIOUS
<1>2. PICK q \in Closing \cup Asking :
        /\ query' = q /\ channel' = IF Identified(q) /\ Associated(q) THEN q.cid ELSE Nil
        /\ cursession' = IF q.cid # Nil THEN SessionOf(q.cid) ELSE Nil
        /\ part' = IF Identified(q) /\ Associated(q) THEN Begin(q) ELSE "failed"
  BY <1>1 DEF Request
<1>3. ListsInv /\ ChannelsInv /\ UNCHANGED <<open, cachemodel>>
  BY <1>1 DEF IInv, Request
<1>4. /\ q.cid \in DOMAIN open \cup {Nil}
      /\ q.all \/ q.cclose # {} => ~q.cnew
  BY <1>1, <1>3, RequestsFit
<1>5. q.cid # Nil => SessionOf(q.cid) = open[q.cid]
  BY <1>3, <1>4, SessionOfGives
<1>6. CASE part' = "failed"
  BY <1>6 DEF HeldInv, ChannelKept
<1>7. CASE part' # "failed"
  <2>1. channel' = q.cid /\ part' = Begin(q)
    BY <1>2, <1>7
  <2>2. part' \in {"stream", "respond"} => ~q.all /\ q.cclose = {}
    BY <1>4, <2>1 DEF Begin, AfterOpen
  <2>3. part' \in {"open", "close", "stream", "respond"}
    BY <2>1 DEF Begin, AfterOpen
  <2>4. DOMAIN open' = DOMAIN cachemodel'
    BY <1>3 DEF ChannelsInv
  <2> QED
    BY <1>2, <1>3, <1>4, <1>5, <2>1, <2>2, <2>3, <2>4 DEF HeldInv, ChannelKept
<1> QED
  BY <1>6, <1>7

\* With its session the channel of the request goes.
LEMMA CloseAllHolds == IInv /\ HeldInv /\ CloseAll => HeldInv'
<1>1. SUFFICES ASSUME IInv, HeldInv, CloseAll PROVE HeldInv'
  OBVIOUS
<1>2. /\ part = "close" /\ query.all /\ cursession # Nil /\ part' = "respond"
      /\ cachemodel' = Minus(cachemodel, Channels(cursession))
      /\ UNCHANGED <<query, channel>>
  BY <1>1 DEF CloseAll, Channels
<1>3. channel \in DOMAIN open /\ open[channel] = cursession
  BY <1>1, <1>2 DEF HeldInv
<1>4. channel \in Channels(cursession)
  BY <1>1, <1>3 DEF IInv, ChannelsInv
<1>5. channel' \notin DOMAIN cachemodel'
  BY <1>2, <1>4 DEF Minus
<1> QED
  BY <1>2, <1>5 DEF HeldInv, ChannelKept

\* Of the channels that are closed one by one, none other goes.
LEMMA CloseListedHolds ==
  IInv /\ HeldInv /\ (CloseListed \/ CloseOne \/ CloseEnds \/ CloseRefused) => HeldInv'
<1>1. SUFFICES ASSUME IInv, HeldInv, CloseListed \/ CloseOne \/ CloseEnds \/ CloseRefused
      PROVE  HeldInv'
  OBVIOUS
<1>2. DOMAIN open = DOMAIN cachemodel
  BY <1>1 DEF IInv, ChannelsInv
<1>3. CASE CloseListed
  <2>1. /\ part = "close" /\ ~query.all /\ part' = "closing"
        /\ UNCHANGED <<query, channel, open>>
    BY <1>3 DEF CloseListed
  <2> QED
    BY <1>1, <2>1 DEF HeldInv, ChannelKept
<1>4. CASE CloseOne
  <2>1. PICK c \in ToClose : open' = Minus(open, {c})
    BY <1>4 DEF CloseOne
  <2>2. part = "closing" /\ UNCHANGED <<query, channel, part>>
    BY <1>4 DEF CloseOne
  <2>3. DOMAIN open' = DOMAIN open \ {c} /\ c \in query.cclose
    BY <2>1 DEF Minus, ToClose
  <2> QED
    BY <1>1, <2>2, <2>3 DEF HeldInv, ChannelKept
<1>5. CASE CloseEnds
  <2>1. /\ part = "closing" /\ ToClose = {} /\ part' = "respond"
        /\ UNCHANGED <<cachemodel, query, channel>>
    BY <1>5 DEF CloseEnds
  <2> QED
    BY <1>1, <1>2, <2>1 DEF HeldInv, ChannelKept, ToClose
<1>6. CASE CloseRefused
  BY <1>6 DEF CloseRefused, HeldInv, ChannelKept
<1> QED
  BY <1>1, <1>3, <1>4, <1>5, <1>6

\* Data is queued for a channel that is there.
LEMMA StreamHolds == IInv /\ HeldInv /\ (StreamStateless \/ StreamSession) => HeldInv'
<1>1. SUFFICES ASSUME IInv, HeldInv, StreamStateless \/ StreamSession PROVE HeldInv'
  OBVIOUS
<1>2. part = "stream" /\ part' \in {"respond", "failed"} /\ UNCHANGED <<cachemodel, query, channel>>
  BY <1>1 DEF StreamStateless, StreamSession, StreamInto
<1>3. DOMAIN open = DOMAIN cachemodel
  BY <1>1 DEF IInv, ChannelsInv
<1> QED
  BY <1>1, <1>2, <1>3 DEF HeldInv, ChannelKept

\* Every step keeps what is known of the channel.
LEMMA NextHolds == FilesFit /\ IInv /\ HeldInv /\ [ServerNext]_serverVars => HeldInv'
<1>1. SUFFICES ASSUME FilesFit, IInv, HeldInv, [ServerNext]_serverVars PROVE HeldInv'
  OBVIOUS
<1>2. CASE UNCHANGED serverVars
  BY <1>1, <1>2 DEF HeldInv, ChannelKept, serverVars
<1>3. CASE Request
  BY <1>1, <1>3, RequestHolds
<1>4. CASE OpenSession \/ OpenTarget \/ OpenShared
  <2>1. \E s, list, m : OpenIn(s, list, m)
    BY <1>4 DEF OpenSession, OpenTarget, OpenShared, OpenWithModel
  <2>2. part = "open" /\ UNCHANGED query
    BY <1>4 DEF OpenSession, OpenTarget, OpenShared
  <2> QED
    BY <1>1, <2>1, <2>2, OpenInHolds DEF IInv
<1>5. CASE CloseAll \/ CloseListed \/ CloseOne \/ CloseEnds \/ CloseRefused
  BY <1>1, <1>5, CloseAllHolds, CloseListedHolds
<1>6. CASE StreamStateless \/ StreamSession
  BY <1>1, <1>6, StreamHolds
<1>7. CASE Respond \/ Fail \/ Crash \/ Terminate
  <2>1. part' \in {"idle", "crashed", "terminated"}
    BY <1>7 DEF Respond, Fail, EndQRprocess, Crash, Terminate
  <2> QED
    BY <2>1 DEF HeldInv, ChannelKept
<1> QED
  BY <1>1, <1>2, <1>3, <1>4, <1>5, <1>6, <1>7 DEF ServerNext

\* What is said of the cache model of the channel is what the answers held.
LEMMA HeldSound == IInv /\ HeldInv => AnswersSound
<1>1. SUFFICES ASSUME IInv, part = "respond", channel \in DOMAIN cachemodel
      PROVE  LET m == cachemodel[channel]
             IN  IsAllSent(models[m]) <=>
                   \A b \in DOMAIN models[m].sent :
                     Has(open[channel], m)[b] \cup Pending(m, b)
                       = 1..Elements(models[m].target, b)
  BY DEF AnswersSound, AllSentMeans, HeldInv
<1>2. PICK m, s : m = cachemodel[channel] /\ s = open[channel]
  OBVIOUS
<1>3. s \in DOMAIN sessions /\ m \in SessionModels(s)
  BY <1>1, <1>2 DEF IInv, ChannelsInv
<1>4. \A b \in DOMAIN models[m].sent : models[m].sent[b] = Has(s, m)[b] \cup Pending(m, b)
  BY <1>1, <1>3 DEF IInv, ClientInv
<1> QED
  BY <1>2, <1>4 DEF IsAllSent

\* The channel from which an answer takes whether all has been sent is there,
\* unless the request closed it, alone or with its session; and then the answer
\* says so when what was sent to the channel's session, in this answer and all
\* before, is all of the target (qr->channel, add_EORmsg, is_allsent).
THEOREM AnswersCorrect == ServerSpec => []AnswersSound
<1>1. ServerInit => IInv /\ HeldInv
  BY InitHolds, JpipServerAssumption DEF ServerInit, HeldInv, ChannelKept
<1>2. IInv /\ HeldInv /\ [ServerNext]_serverVars => (IInv /\ HeldInv)'
  BY NextKeeps, NextHolds, JpipServerAssumption
<1>3. IInv /\ HeldInv => AnswersSound
  BY HeldSound
<1> QED
  BY <1>1, <1>2, <1>3, PTL DEF ServerSpec
==============================================================================
