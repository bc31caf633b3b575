--------------------------- MODULE DecoderProofs ---------------------------
(***************************************************************************)
(* What the decoder of Decoder.tla gives, for any codestreams and any      *)
(* calls.  Whatever a codestream says: the decoder never goes past the     *)
(* ends of its arrays and of its index, and puts a tile together of its own*)
(* parts only, in their order (PartsCorrect).  For those that conform, the *)
(* index it seeks by is right (IndexCorrect).  For those with random       *)
(* access, asking for a tile gives that tile, with all of its parts        *)
(* (TileCorrect).  For those that conform or that it repairs, decoding an  *)
(* area gives the tiles of the area, each once and whole (AreaCorrect), no *)
(* call fails (CallsCorrect), and nothing is left behind that the next one *)
(* could take for its own (LeftBehindCorrect).                             *)
(***************************************************************************)
EXTENDS Decoder, FiniteSetTheorems, SequenceTheorems,
        WellFoundedInduction, TLAPS

-----------------------------------------------------------------------------
(***************************************************************************)
(* Ascending and Min                                                       *)
(***************************************************************************)
\* A set of numbers that has members has a smallest one.
LEMMA MinIn ==
  ASSUME NEW S \in SUBSET Nat, S # {}
  PROVE  Min(S) \in S /\ \A x \in S : Min(S) <= x
<1>1. \E x \in S : \A y \in S : ~ (<<y, x>> \in OpToRel(<, Nat))
  BY WFMin, NatLessThanWellFounded
<1>2. PICK x \in S : \A y \in S : ~ (<<y, x>> \in OpToRel(<, Nat))
  BY <1>1
<1>3. \A y \in S : ~ (y < x)
  <2>1. \A y \in S : y \in Nat /\ x \in Nat
    OBVIOUS
  <2> QED
    BY <1>2, <2>1 DEF OpToRel
<1>4. \A y \in S : x <= y
  BY <1>3
<1> QED
  BY <1>4 DEF Min

\* Every member of a finite set of numbers has as many smaller ones as its place
\* says, and every place is taken: the sequence is one of members of the set.
LEMMA AscendingSeq ==
  ASSUME NEW S \in SUBSET Nat, IsFiniteSet(S)
  PROVE  /\ Ascending(S) \in Seq(S) /\ Len(Ascending(S)) = Cardinality(S)
         /\ Cardinality(S) \in Nat
         /\ \A j, k \in 1..Cardinality(S) : j < k => Ascending(S)[j] < Ascending(S)[k]
         /\ \A x \in S : \E k \in 1..Cardinality(S) : Ascending(S)[k] = x
<1> DEFINE below(x) == {y \in S : y < x}
           n == Cardinality(S)
           rank == [x \in S |-> Cardinality(below(x))]
<1>1. n \in Nat
  BY FS_CardinalityType
<1>2. ASSUME NEW x \in S
      PROVE  IsFiniteSet(below(x)) /\ Cardinality(below(x)) \in 0..(n - 1)
  <2>1. below(x) \in SUBSET S /\ x \notin below(x)
    OBVIOUS
  <2>2. IsFiniteSet(below(x)) /\ Cardinality(below(x)) <= n
        /\ (n = Cardinality(below(x)) => S = below(x))
    BY <2>1, FS_Subset
  <2>3. Cardinality(below(x)) \in Nat
    BY <2>2, FS_CardinalityType
  <2> QED
    BY <1>1, <2>1, <2>2, <2>3
<1>3. ASSUME NEW x \in S, NEW y \in S, x < y
      PROVE  Cardinality(below(x)) < Cardinality(below(y))
  <2>1. below(x) \in SUBSET below(y) /\ x \in below(y) /\ x \notin below(x)
    <3>1. x \in Nat /\ y \in Nat /\ \A z \in S : z \in Nat
      OBVIOUS
    <3>2. \A z \in S : z < x => z < y
      BY <1>3, <3>1
    <3>3. ~ (x < x)
      BY <3>1
    <3> QED
      BY <1>3, <3>2, <3>3
  <2>2. IsFiniteSet(below(y))
    BY <1>2
  <2>3. /\ Cardinality(below(x)) <= Cardinality(below(y))
        /\ Cardinality(below(y)) = Cardinality(below(x)) => below(y) = below(x)
    BY <2>1, <2>2, FS_Subset
  <2>4. Cardinality(below(x)) \in Int /\ Cardinality(below(y)) \in Int
    BY <1>2
  <2> QED
    BY <2>1, <2>3, <2>4
<1>4. rank \in Injection(S, 0..(n - 1))
  <2>1. rank \in [S -> 0..(n - 1)]
    BY <1>2
  <2>2. ASSUME NEW x \in S, NEW y \in S, rank[x] = rank[y] PROVE x = y
    <3>1. x < y \/ y < x \/ x = y
      OBVIOUS
    <3>2. rank[x] = Cardinality(below(x)) /\ rank[y] = Cardinality(below(y)) /\ rank[x] \in Int
      BY <1>2
    <3>3. x < y => rank[x] < rank[y]
      BY <1>3, <3>2
    <3>4. y < x => rank[y] < rank[x]
      BY <1>3, <3>2
    <3> QED
      BY <2>2, <3>1, <3>2, <3>3, <3>4
  <2> QED
    BY <2>1, <2>2 DEF Injection, IsInjective
<1>5. IsFiniteSet(0..(n - 1)) /\ Cardinality(0..(n - 1)) = n
  <2>0. 0 \in Int /\ n - 1 \in Int
    BY <1>1
  <2>1. IsFiniteSet(0..(n - 1)) /\ Cardinality(0..(n - 1)) = IF 0 > n - 1 THEN 0 ELSE n - 1 - 0 + 1
    BY <2>0, FS_Interval, Zenon
  <2> QED
    BY <1>1, <2>1
<1>6. rank \in Surjection(S, 0..(n - 1))
  BY <1>4, <1>5, FS_Injection
<1>7. ASSUME NEW k \in 1..n PROVE \E x \in S : Cardinality(below(x)) = k - 1
  <2>1. k - 1 \in 0..(n - 1)
    BY <1>1
  <2> QED
    BY <1>6, <2>1 DEF Surjection
<1>8. Ascending(S) \in [1..n -> S]
  <2>1. \A k \in 1..n : (CHOOSE x \in S : Cardinality(below(x)) = k - 1) \in S
    BY <1>7
  <2> QED
    BY <2>1 DEF Ascending
<1> DEFINE A == Ascending(S)
<1>9. \A k \in 1..n : A[k] \in S /\ Cardinality(below(A[k])) = k - 1
  <2>1. \A k \in 1..n : A[k] = CHOOSE x \in S : Cardinality(below(x)) = k - 1
    BY DEF Ascending
  <2> QED
    BY <1>7, <2>1
<1>10. ASSUME NEW j \in 1..n, NEW k \in 1..n, j < k PROVE A[j] < A[k]
  <2> HIDE DEF A
  <2>1. /\ A[j] \in S /\ A[k] \in S
        /\ Cardinality(below(A[j])) = j - 1 /\ Cardinality(below(A[k])) = k - 1
    BY <1>9
  <2>2. A[j] < A[k] \/ A[k] < A[j] \/ A[j] = A[k]
    <3>1. A[j] \in Nat /\ A[k] \in Nat
      BY <2>1
    <3> QED
      BY <3>1
  <2>3. A[k] < A[j] => Cardinality(below(A[k])) < Cardinality(below(A[j]))
    BY <1>3, <2>1
  <2>4. ~ (k - 1 < j - 1) /\ j - 1 # k - 1
    BY <1>1, <1>10
  <2> QED
    BY <2>1, <2>2, <2>3, <2>4
<1>11. ASSUME NEW x \in S PROVE \E k \in 1..n : A[k] = x
  <2> HIDE DEF A
  <2>1. PICK k \in 1..n : k - 1 = Cardinality(below(x))
    <3>1. PICK r \in 0..(n - 1) : r = Cardinality(below(x))
      BY <1>2
    <3>2. r + 1 \in 1..n /\ (r + 1) - 1 = r
      BY <1>1
    <3> QED
      BY <3>1, <3>2
  <2>2. A[k] \in S /\ rank[A[k]] = rank[x]
    BY <1>9, <2>1
  <2>3. A[k] = x
    BY <1>4, <2>2 DEF Injection, IsInjective
  <2> QED
    BY <2>3
<1> QED
  BY <1>1, <1>8, <1>10, <1>11
-----------------------------------------------------------------------------
(***************************************************************************)
(* The inductive invariant                                                 *)
(***************************************************************************)
\* A call of opj_decode or opj_get_decoded_tile is on its way.
InCall == pc \in {"header", "sod", "found", "decode"}

\* The variables have their types; what is indexed reads as a tile-part.
Types ==
  /\ TypeOK
  /\ start \in [Tiles -> {NoIndex} \cup [PartNumbers(stream) -> 0..N]]
  /\ image \in Seq([tile : Tiles, data : Seq(1..N)])

\* As long as the TLM markers are believed, the index has all the parts they
\* announce; a tile that has a number of parts has an index.
IndexInv ==
  /\ \A t \in Tiles : nb_tps[t] > 0 => start[t] # NoIndex
  /\ tlm_ok => \A t \in Tiles :
       /\ start[t] # NoIndex /\ nb_tps[t] <= N
       /\ \A p \in 0..(nb_tps[t] - 1) : start[t][p] # Unset

\* Where a call is: never before the first tile-part.
CallInv ==
  /\ pc # "failed" => at > 0
  /\ pc = "sod" => at <= N /\ last_part
  /\ InCall => op # "none"
  /\ InCall /\ op = "tiles" => nr_tiles < stream.tiles

\* The application decodes areas or asks for tiles; nothing has been collected
\* before its first call.
Fresh == used = "new" \/ (used = "area" /\ ~Single)
ModeInv ==
  /\ used = "tiles" <=> wanted # -1
  /\ wanted # -1 => area.from = wanted /\ area.to = wanted + 1 /\ op = "tile"
  /\ wanted = -1 => op # "tile"
  /\ wanted # -1 /\ InCall => image = <<>>
  /\ InCall => used \in {"decoded", "tiles"}
  /\ Fresh => \A t \in Tiles : data[t] = <<>> /\ part_no[t] = -1

\* No further part of tile t can be taken.
NbClosed(t) == checked /\ nb_parts[t] # 0 /\ nb_parts[t] <= part_no[t] + 1
Closed(t) == NbClosed(t) \/ state # "TPHSOT"

\* The part numbers count what has been collected of a tile, or the tile has been
\* decoded and is closed.
InOrder(t) == \A k \in 1..Len(data[t]) :
  Part(data[t][k]).tile = t /\ Part(data[t][k]).part = k - 1
Counted(t) == Len(data[t]) = part_no[t] + 1
Collected ==
  /\ wanted = -1 => \A t \in Tiles :
       InArea(t) => Counted(t) \/ (data[t] = <<>> /\ Closed(t))
  /\ wanted # -1 /\ InCall => Counted(wanted)
  /\ wanted # -1 /\ pc = "idle" => \A t \in Tiles : data[t] = <<>>

\* A tile is decoded when it is closed.
Found ==
  /\ ~last_part /\ pc # "sod"
  /\ wanted = -1 /\ pc = "header" => state = "TPHSOT"
  /\ pc = "found" /\ ~can_decode => state # "TPHSOT"
  /\ can_decode => pc \in {"found", "decode"} /\ NbClosed(tile)
  /\ pc = "decode" => wanted # -1 \/ Closed(tile)
  /\ Single /\ wanted = -1 /\ pc = "idle" /\ data[0] # <<>> => Closed(0)

\* When every Psot is given.  A call that has failed leaves nothing to rely on.
Usable == pc \in {"idle", "header", "sod", "found", "decode"}
Book == NoPsot0 =>
  /\ \A t \in Tiles : InOrder(t) /\ (data[t] # <<>> => InArea(t))
  /\ Usable => Collected /\ Found

IInv == Types /\ IndexInv /\ CallInv /\ ModeInv /\ Book

\* A codestream that conforms, or that is one part off.
Regular == Conformant \/ OffByOne

\* Of such a codestream, the index is right wherever it says something.
IndexRight == Regular =>
  \A t \in Tiles :
    /\ nb_tps[t] <= N + 1
    /\ start[t] # NoIndex => \A p \in PartNumbers(stream) :
         start[t][p] # Unset => Part(start[t][p]).tile = t /\ Part(start[t][p]).part = p

\* Whatever TNsot says of a tile is right.
Truthful == Ordered /\ \A i \in 1..N : Part(i).num \in {0, NumOf(Part(i).tile)}

\* What has been made of it: right, or corrected if it has to be; and it is not
\* forgotten.
NumbersInv ==
  /\ Truthful => corr = 0 /\ \A t \in Tiles : nb_parts[t] \in {0, NumOf(t)}
  /\ OffByOne => /\ checked <=> corr = 1
                 /\ \A t \in Tiles : nb_parts[t] \in {0, NumOf(t) - 1 + corr}
  /\ \A t \in Tiles : nb_parts[t] # 0 => \E i \in 1..N : Part(i).tile = t /\ Part(i).num # 0
  /\ Ordered => \A i \in 1..N : Part(i).part = part_no[Part(i).tile] /\ Part(i).num # 0 =>
                  nb_parts[Part(i).tile] # 0

\* The tile-parts of a tile that lie ahead are those that have not been met, ...
Synced(t) == \A i \in 1..N : Part(i).tile = t => (Part(i).part > part_no[t] <=> i >= at)

\* ... and TNsot is corrected before the last of them.
CorrectedLater(t) == OffByOne /\ corr = 0 => part_no[t] + 2 < NumOf(t)

\* With random access, what asking for a tile relies on: ...
Asking == RandomAccess /\ used \in {"new", "tiles"} /\ Usable

\* ... that the index knows every tile that has been met, and all with TLM markers, ...
MetInv ==
  /\ tlm_ok <=> stream.tlm # <<>>
  /\ tlm_ok => \A t \in Tiles : nb_tps[t] = NumOf(t)
  /\ ~ tlm_ok =>
       /\ \A i \in 1..last_sot : Part(i).part = 0 => nb_tps[Part(i).tile] > 0
       /\ \A t \in Tiles : start[t] # NoIndex =>
            last_sot > 0 /\ \A p \in PartNumbers(stream) : start[t][p] <= last_sot
       /\ \A t \in Tiles : nb_tps[t] > 0 => start[t][0] # Unset

\* ... that no tile-part still wanted is behind the position, and that all has been
\* met where the codestream ends, ...
PositionInv ==
  /\ plan = <<>> /\ state # "NEOC"
  /\ pc = "idle" => at = 1
  /\ ~ tlm_ok => at <= last_sot + 1
  /\ ~ tlm_ok /\ state = "EOC" => last_sot = N
  /\ wanted # -1 /\ pc = "header" => at <= N /\ Synced(wanted) /\ CorrectedLater(wanted)
  /\ wanted # -1 /\ pc = "found" /\ ~ can_decode => tile = 0

\* ... and that what is decoded is the tile asked for, with all it has.
Whole(t) == Len(data[t]) = NumOf(t)
WholeInv == wanted # -1 =>
  /\ pc \in {"found", "decode"} => Whole(wanted)
  /\ (pc = "found" /\ can_decode) \/ pc = "decode" => tile = wanted
  /\ pc = "idle" => image = <<[tile |-> wanted, data |-> PartsOf(wanted)]>>

Access == Asking => MetInv /\ PositionInv /\ WholeInv

\* Before the first call of opj_decode nothing has been read; the only tile of an
\* image needs no plan.
FreshInv ==
  /\ tlm_ok => stream.tlm # <<>>
  /\ Single => ~ planned
  /\ Fresh =>
       /\ at = 1 /\ state = "TPHSOT" /\ ~ can_decode /\ ~ last_part
       /\ plan = <<>> /\ ~ planned
       /\ Conformant /\ tlm_ok => \A t \in Tiles : nb_tps[t] = NumOf(t)

\* What opj_decode relies on: ...
Decoding == wanted = -1 /\ Sound /\ Usable

\* ... that of a tile of the area, or of any if no TLM marker leads past them, all
\* behind the position has been met, ...
SyncInv ==
  /\ \A t \in Tiles : InArea(t) \/ ~ planned => Synced(t)
  /\ \A t \in Tiles : InArea(t) => CorrectedLater(t)

\* ... that the plan has every tile-part of the area that lies ahead, ...
PlanInv ==
  IF planned
  THEN /\ ~ Single /\ stream.tlm # <<>> /\ used = "decoded"
       /\ \A j, k \in 1..Len(plan) : j < k => plan[j] < plan[k]
       /\ \A i \in 1..N : (\E k \in 1..Len(plan) : plan[k] = i) <=> InArea(Part(i).tile) /\ i >= at
       /\ pc = "header" => plan # <<>>
       /\ pc \in {"found", "decode"} => can_decode
  ELSE /\ plan = <<>>
       /\ pc = "header" => at <= N

\* ... that the state says where the end is, ...
PlaceInv ==
  /\ pc # "sod"
  /\ last_part => at > N
  /\ state = "TPHSOT" \/ (state = "EOC" /\ at > N)
  /\ pc = "header" => state = "TPHSOT"
  /\ pc = "found" /\ ~ can_decode => state = "EOC"
  /\ state = "TPHSOT" /\ at > N => stream.eoc
  /\ can_decode => pc \in {"found", "decode"} /\ state = "TPHSOT"

\* ... that a tile of the area has been decoded, is to be decoded next, or lacks the
\* tile-parts that have not been met, ...
Done(t) == \E k \in DOMAIN image : image[k].tile = t
Finished(t) == part_no[t] + 1 = NumOf(t)
DataInv == InCall =>
  /\ \A t \in Tiles : ~ InArea(t) => data[t] = <<>>
  /\ \A t \in Tiles : InArea(t) =>
       /\ InOrder(t)
       /\ IF Done(t) THEN data[t] = <<>> /\ Finished(t) ELSE Counted(t)
       /\ Finished(t) /\ nb_parts[t] # 0 /\ ~ Done(t) /\ state = "TPHSOT" =>
            pc \in {"found", "decode"} /\ t = tile
  /\ state = "EOC" => \A u \in Tiles : u < tile => data[u] = <<>>
  /\ (pc = "found" /\ can_decode) \/ pc = "decode" =>
       InArea(tile) /\ Finished(tile) /\ ~ Done(tile)

\* ... that the image has been given whole tiles, each once, ...
ImageInv ==
  /\ used = "decoded" =>
       /\ \A k \in DOMAIN image : Complete(k) /\ InArea(image[k].tile)
       /\ \A j, k \in DOMAIN image : image[j].tile = image[k].tile => j = k
  /\ InCall => /\ op = "tiles" => nr_tiles = Len(image)
               /\ op = "fast" => IsFast
               /\ Single => image = <<>>

\* ... and all of them when the call returns, after which the data of the only tile
\* is there if it is needed again.
IdleInv == pc = "idle" =>
  /\ used = "decoded" => \A t \in Tiles : InArea(t) => Done(t)
  /\ used = "decoded" /\ ~ Single => \A t \in Tiles : data[t] = <<>>
  /\ Single /\ ~ Fresh =>
       \/ used # "decoded" /\ state = "TPHSOT" /\ at = 1 /\ data[0] = <<>> /\ part_no[0] = -1
       \/ /\ state = "EOC"
          /\ used = "area" \/ area.inside => data[0] # <<>>
          /\ data[0] # <<>> => InOrder(0) /\ Whole(0) /\ Finished(0)

Area == Decoding => SyncInv /\ PlanInv /\ PlaceInv /\ DataInv /\ ImageInv /\ IdleInv
-----------------------------------------------------------------------------
(***************************************************************************)
(* What the codestream is, and that no step changes it                     *)
(***************************************************************************)
\* What is assumed of a codestream.
LEMMA StreamFacts ==
  ASSUME stream \in Streams
  PROVE  /\ N \in Nat \ {0} /\ stream.tiles \in Nat \ {0} /\ 0 \in Tiles
         /\ stream.eoc \in BOOLEAN
         /\ \A i \in 1..N : /\ Part(i).tile \in Tiles /\ Part(i).part \in Nat
                            /\ Part(i).num \in Nat /\ Part(i).psot0 \in BOOLEAN
<1>1. StreamOK(stream)
  BY DecoderAssumption
<1>2. /\ stream.tiles \in Nat \ {0} /\ stream.eoc \in BOOLEAN /\ Len(stream.parts) > 0
      /\ stream.parts \in Seq([tile : 0..(stream.tiles - 1), part : Nat, num : Nat,
                              psot0 : BOOLEAN])
  BY <1>1, Zenon DEF StreamOK
<1>3. N \in Nat \ {0} /\ 0 \in Tiles
  BY <1>2 DEF N, Tiles
<1>4. ASSUME NEW i \in 1..N
      PROVE  Part(i) \in [tile : Tiles, part : Nat, num : Nat, psot0 : BOOLEAN]
  <2> DEFINE R == [tile : 0..(stream.tiles - 1), part : Nat, num : Nat, psot0 : BOOLEAN]
  <2>1. stream.parts \in Seq(R) /\ i \in 1..Len(stream.parts)
    BY <1>2 DEF N
  <2>2. stream.parts[i] \in R
    <3> HIDE DEF R
    <3> QED
      BY <2>1, ElementOfSeq
  <2> QED
    BY <2>2 DEF Tiles, Part
<1> QED
  BY <1>2, <1>3, <1>4

\* The codestream, and what is said of it, stays as it is.
LEMMA SameStream ==
  ASSUME UNCHANGED fileVars
  PROVE  /\ N' = N /\ Tiles' = Tiles /\ Areas' = Areas /\ Single' = Single
         /\ NoPsot0' = NoPsot0 /\ Conformant' = Conformant /\ OffByOne' = OffByOne
         /\ RandomAccess' = RandomAccess
         /\ \A i : Part(i)' = Part(i)
         /\ \A t : PartsOf(t)' = PartsOf(t) /\ NumOf(t)' = NumOf(t)
BY DEF fileVars, N, Tiles, Areas, Single, NoPsot0, Part, Conformant, OffByOne, RandomAccess,
       NumKnown, Ordered, PartsOf, NumOf

\* No step changes the codestream or the mode.
LEMMA FileKept ==
  ASSUME [Next]_vars
  PROVE  UNCHANGED fileVars
<1>1. CASE UNCHANGED vars
  BY <1>1 DEF vars
<1>2. CASE CallNext
  BY <1>2 DEF CallNext, SetArea, SetAreaFails, DecodeFast, DecodeKept, DecodeArea, GetTile,
              BeginDecode, fileVars
<1>3. CASE PartNext
  BY <1>3 DEF PartNext, HeaderEnds, SotFails, SkipNothing, SkipPart, SkipFails, SodFails,
              TakeAndJump, TakeAndGoOn, TakeLast, TakeAndCorrect, TakeUnwanted, Fail, fileVars
<1>4. CASE TileNext
  BY <1>4 DEF TileNext, FindTile, NoTile, DecodeFails, DecodeBroken, MarkerFails, FastTile,
              AreaTile, WantedTile, OtherTile, DecodesTile, Fail, fileVars
<1>5. CASE Over
  BY <1>5 DEF Over, vars
<1> QED
  BY <1>1, <1>2, <1>3, <1>4, <1>5 DEF Next

\* The types, one by one.
LEMMA TypesOf ==
  ASSUME Types
  PROVE  /\ state \in {"TPHSOT", "EOC", "NEOC"} /\ at \in 0..(N + 1) /\ tile \in Tiles
         /\ can_decode \in BOOLEAN /\ last_part \in BOOLEAN
         /\ corr \in {0, 1} /\ checked \in BOOLEAN /\ wanted \in Tiles \cup {-1}
         /\ area \in Areas /\ planned \in BOOLEAN /\ plan \in Seq(1..N)
         /\ data \in [Tiles -> Seq(1..N)]
         /\ part_no \in [Tiles -> Nat \cup {-1}] /\ nb_parts \in [Tiles -> Nat]
         /\ nb_tps \in [Tiles -> Nat] /\ last_sot \in 0..N /\ tlm_ok \in BOOLEAN
         /\ start \in [Tiles -> {NoIndex} \cup [PartNumbers(stream) -> 0..N]]
         /\ pc \in {"idle", "header", "sod", "found", "decode", "failed", "broken",
                    "refused"}
         /\ op \in {"none", "fast", "tiles", "tile"} /\ nr_tiles \in 0..stream.tiles
         /\ image \in Seq([tile : Tiles, data : Seq(1..N)])
         /\ used \in {"new", "area", "decoded", "tiles"} /\ calls \in 0..MaxCalls
         /\ stream \in Streams
BY DEF Types, TypeOK

\* The typing of the next state, in terms of this one's sets.
LEMMA TypesFrom ==
  ASSUME Types, stream' = stream /\ mode' = mode /\ exact' = exact,
         state' \in {"TPHSOT", "EOC", "NEOC"}, at' \in 0..(N + 1), tile' \in Tiles,
         can_decode' \in BOOLEAN, last_part' \in BOOLEAN,
         corr' \in {0, 1}, checked' \in BOOLEAN, wanted' \in Tiles \cup {-1},
         area' \in Areas, planned' \in BOOLEAN, plan' \in Seq(1..N),
         data' \in [Tiles -> Seq(1..N)],
         part_no' \in [Tiles -> Nat \cup {-1}], nb_parts' \in [Tiles -> Nat],
         nb_tps' \in [Tiles -> Nat], last_sot' \in 0..N, tlm_ok' \in BOOLEAN,
         start' \in [Tiles -> {NoIndex} \cup [PartNumbers(stream) -> 0..N]],
         pc' \in {"idle", "header", "sod", "found", "decode", "failed", "broken", "refused"},
         op' \in {"none", "fast", "tiles", "tile"}, nr_tiles' \in 0..stream.tiles,
         image' \in Seq([tile : Tiles, data : Seq(1..N)]),
         used' \in {"new", "area", "decoded", "tiles"}, calls' \in 0..MaxCalls
  PROVE  Types'
<1>1. stream' = stream /\ mode' = mode /\ exact' = exact
  OBVIOUS
<1>2. N' = N /\ Tiles' = Tiles /\ Areas' = Areas /\ PartNumbers(stream)' = PartNumbers(stream)
  BY <1>1, SameStream DEF fileVars
<1>3. \A k \in DOMAIN image' : image'[k].tile \in Tiles /\ image'[k].data \in Seq(1..N)
  <2> DEFINE R == [tile : Tiles, data : Seq(1..N)]
  <2>1. image' \in Seq(R)
    OBVIOUS
  <2>2. \A k \in DOMAIN image' : image'[k] \in R
    <3> HIDE DEF R
    <3> QED
      BY <2>1
  <2> QED
    BY <2>2
<1>4. TypeOK'
  BY <1>1, <1>2, <1>3 DEF Types, TypeOK
<1> QED
  BY <1>1, <1>2, <1>4 DEF Types

\* An index is not none.
LEMMA IndexIsSome ==
  ASSUME NEW s, NEW f \in [PartNumbers(s) -> Nat], Len(s.parts) \in Nat
  PROVE  f # NoIndex
<1>1. DOMAIN f = 0..Len(s.parts)
  BY DEF PartNumbers
<1>2. DOMAIN NoIndex = 1..0
  BY DEF NoIndex
<1>3. 0 \in DOMAIN f /\ 0 \notin DOMAIN NoIndex
  BY <1>1, <1>2
<1> QED
  BY <1>3
-----------------------------------------------------------------------------
(***************************************************************************)
(* The initial states                                                      *)
(***************************************************************************)
\* A sequence of members of a set is one of members of a larger set.
LEMMA SeqWiden ==
  ASSUME NEW S, NEW T, S \subseteq T, NEW q \in Seq(S)
  PROVE  q \in Seq(T) /\ Len(q) \in Nat /\ \A k \in 1..Len(q) : q[k] \in S
<1>1. q \in [1..Len(q) -> S] /\ Len(q) \in Nat
  OBVIOUS
<1>2. q \in [1..Len(q) -> T]
  BY <1>1
<1> QED
  BY <1>1, <1>2

\* What the TLM markers say are the parts of tile t are tile-parts, of tile t.
LEMMA TlmPartsType ==
  ASSUME stream \in Streams, stream.tlm # <<>>, NEW t
  PROVE  /\ TlmParts(stream, t) \in Seq(1..N) /\ Len(TlmParts(stream, t)) \in 0..N
         /\ \A k \in 1..Len(TlmParts(stream, t)) : stream.tlm[TlmParts(stream, t)[k]] = t
<1> DEFINE S == {i \in DOMAIN stream.tlm : stream.tlm[i] = t}
<1>1. StreamOK(stream)
  BY DecoderAssumption
<1>2. stream.tlm \in [1..N -> 0..(stream.tiles - 1)]
  BY <1>1, Zenon DEF StreamOK, N
<1>3. N \in Nat
  BY StreamFacts
<1>4. S \in SUBSET (1..N) /\ S \in SUBSET Nat
  BY <1>2, <1>3
<1>5. 1 \in Int /\ N \in Int
  BY <1>3
<1>6. IsFiniteSet(1..N) /\ Cardinality(1..N) = IF 1 > N THEN 0 ELSE N - 1 + 1
  BY <1>5, FS_Interval, Zenon
<1>7. IsFiniteSet(S) /\ Cardinality(S) <= N
  BY <1>3, <1>4, <1>6, FS_Subset
<1>8. /\ Ascending(S) \in Seq(S) /\ Len(Ascending(S)) = Cardinality(S)
      /\ Cardinality(S) \in Nat
  BY <1>4, <1>7, AscendingSeq, Zenon
<1>9. TlmParts(stream, t) = Ascending(S)
  BY DEF TlmParts
<1>10. /\ Ascending(S) \in Seq(1..N)
       /\ \A k \in 1..Len(Ascending(S)) : Ascending(S)[k] \in S
  <2> HIDE DEF S
  <2> QED
    BY <1>4, <1>8, SeqWiden
<1>11. \A k \in 1..Len(Ascending(S)) : stream.tlm[Ascending(S)[k]] = t
  BY <1>10
<1>12. Len(Ascending(S)) \in 0..N
  BY <1>3, <1>7, <1>8
<1> QED
  BY <1>9, <1>10, <1>11, <1>12

\* Without valid TLM markers there is no index; with them it is what they say.
LEMMA InitIndex ==
  ASSUME Init
  PROVE  /\ start \in [Tiles -> {NoIndex} \cup [PartNumbers(stream) -> 0..N]]
         /\ nb_tps \in [Tiles -> Nat] /\ tlm_ok \in BOOLEAN
         /\ IndexInv
<1>1. stream \in Streams
  BY DEF Init
<1>2. N \in Nat /\ PartNumbers(stream) = 0..N
  BY <1>1, StreamFacts DEF PartNumbers, N
<1>3. /\ nb_tps = [t \in Tiles |-> IF tlm_ok THEN Len(TlmParts(stream, t)) ELSE 0]
      /\ start = [t \in Tiles |-> IF tlm_ok THEN TlmStart(stream, t) ELSE NoIndex]
      /\ tlm_ok = TlmValid(stream)
  BY DEF Init
<1>4. CASE ~ tlm_ok
  <2>1. /\ nb_tps = [t \in Tiles |-> 0] /\ start = [t \in Tiles |-> NoIndex]
    BY <1>3, <1>4
  <2>2. tlm_ok \in BOOLEAN
    BY <1>3, Zenon DEF TlmValid
  <2> QED
    BY <1>4, <2>1, <2>2 DEF IndexInv
<1>5. CASE tlm_ok
  <2>1. stream.tlm # <<>>
    BY <1>3, <1>5 DEF TlmValid
  <2>2. ASSUME NEW t \in Tiles
        PROVE  /\ TlmStart(stream, t) \in [PartNumbers(stream) -> 0..N]
               /\ Len(TlmParts(stream, t)) \in 0..N
               /\ \A p \in 0..(Len(TlmParts(stream, t)) - 1) :
                    TlmStart(stream, t)[p] # Unset
    <3> DEFINE q == TlmParts(stream, t)
    <3>1. q \in Seq(1..N) /\ Len(q) \in 0..N
      BY <1>1, <2>1, TlmPartsType
    <3>2. \A k \in 1..Len(q) : q[k] \in 1..N
      BY <3>1, SeqWiden
    <3>3. TlmStart(stream, t) = [p \in 0..N |-> IF p < Len(q) THEN q[p + 1] ELSE 0]
      BY <1>2 DEF TlmStart, Unset
    <3> HIDE DEF q
    <3>4. \A p \in 0..N : (IF p < Len(q) THEN q[p + 1] ELSE 0) \in 0..N
      BY <1>2, <3>1, <3>2
    <3>5. TlmStart(stream, t) \in [PartNumbers(stream) -> 0..N]
      BY <1>2, <3>3, <3>4
    <3>6. \A p \in 0..(Len(q) - 1) : TlmStart(stream, t)[p] # Unset
      BY <1>2, <3>1, <3>2, <3>3 DEF Unset
    <3> QED
      BY <3>1, <3>5, <3>6 DEF q
  <2>3. \A t \in Tiles : /\ nb_tps[t] = Len(TlmParts(stream, t))
                         /\ start[t] = TlmStart(stream, t)
    BY <1>3, <1>5
  <2>4. ASSUME NEW t \in Tiles PROVE start[t] # NoIndex
    <3> DEFINE f == TlmStart(stream, t)
    <3>1. f \in [PartNumbers(stream) -> 0..N] /\ start[t] = f
      BY <2>2, <2>3
    <3> HIDE DEF f
    <3>2. f \in [PartNumbers(stream) -> Nat]
      BY <1>2, <3>1
    <3> QED
      BY <1>2, <3>1, <3>2, IndexIsSome DEF N
  <2>5. nb_tps \in [Tiles -> Nat]
    <3>1. \A t \in Tiles : Len(TlmParts(stream, t)) \in Nat
      BY <1>2, <2>2
    <3> QED
      BY <1>3, <1>5, <3>1
  <2>6. start \in [Tiles -> {NoIndex} \cup [PartNumbers(stream) -> 0..N]]
    BY <1>3, <1>5, <2>2
  <2>7. IndexInv
    <3>1. ASSUME NEW t \in Tiles
          PROVE  /\ start[t] # NoIndex /\ nb_tps[t] <= N
                 /\ \A p \in 0..(nb_tps[t] - 1) : start[t][p] # Unset
      <4>1. start[t] = TlmStart(stream, t) /\ nb_tps[t] = Len(TlmParts(stream, t))
        BY <2>3
      <4>2. \A p \in 0..(nb_tps[t] - 1) : start[t][p] # Unset
        BY <2>2, <4>1
      <4>3. nb_tps[t] <= N
        BY <1>2, <2>2, <4>1
      <4> QED
        BY <2>4, <4>2, <4>3
    <3> QED
      BY <3>1 DEF IndexInv
  <2> QED
    BY <1>5, <2>5, <2>6, <2>7
<1> QED
  BY <1>4, <1>5

\* IInv holds before the first call.
LEMMA InitInv == Init => IInv
<1> SUFFICES ASSUME Init PROVE IInv
  OBVIOUS
<1>1. stream \in Streams
  BY DEF Init
<1>2. /\ N \in Nat \ {0} /\ stream.tiles \in Nat \ {0} /\ 0 \in Tiles
  BY <1>1, StreamFacts
<1>3. /\ start \in [Tiles -> {NoIndex} \cup [PartNumbers(stream) -> 0..N]]
      /\ nb_tps \in [Tiles -> Nat] /\ tlm_ok \in BOOLEAN /\ IndexInv
  BY InitIndex
<1>4. area \in Areas /\ wanted = -1
  BY <1>2 DEF Init, Areas, Tiles
<1>5. Types
  <2>1. /\ data \in [Tiles -> Seq(1..N)] /\ plan \in Seq(1..N)
        /\ image \in Seq([tile : Tiles, data : Seq(1..N)]) /\ DOMAIN image = {}
    BY DEF Init
  <2>2. mode \in Modes /\ exact \in BOOLEAN /\ checked \in BOOLEAN /\ calls \in 0..MaxCalls
    <3>1. exact \in IF stream.tiles = 1 THEN BOOLEAN ELSE {FALSE}
      BY DEF Init
    <3>2. checked = (mode = "strict") /\ mode \in Modes /\ calls = 0
      BY DEF Init
    <3> QED
      <4>1. exact \in BOOLEAN
        BY <3>1
      <4>2. checked \in BOOLEAN
        BY <3>2
      <4> QED
        BY <3>2, <4>1, <4>2, DecoderAssumption
  <2> QED
    BY <1>1, <1>2, <1>3, <1>4, <2>1, <2>2 DEF Init, Types, TypeOK
<1>6. CallInv
  BY <1>2 DEF Init, CallInv, InCall
<1>7. ModeInv
  BY DEF Init, ModeInv, InCall
<1>8. Book
  <2>1. /\ \A t \in Tiles : data[t] = <<>> /\ part_no[t] = -1
        /\ wanted = -1 /\ pc = "idle" /\ can_decode = FALSE /\ last_part = FALSE
    BY DEF Init
  <2>2. \A t \in Tiles : InOrder(t) /\ Counted(t)
    BY <2>1 DEF InOrder, Counted
  <2>3. Collected
    BY <2>1, <2>2 DEF Collected, InCall
  <2>4. Found
    BY <1>2, <2>1 DEF Found
  <2> QED
    BY <2>1, <2>2, <2>3, <2>4 DEF Book
<1> QED
  BY <1>3, <1>5, <1>6, <1>7, <1>8 DEF IInv
-----------------------------------------------------------------------------
(***************************************************************************)
(* One tile-part                                                           *)
(***************************************************************************)
\* The SOT that is read is one of the codestream.
LEMMA HereInside ==
  ASSUME Types, CallInv, AtSot
  PROVE  Here \in 1..N /\ Part(Here).tile \in Tiles /\ Part(Here).part \in Nat
         /\ Part(Here).num \in Nat
<1>1. plan \in Seq(1..N) /\ at \in 0..(N + 1) /\ at > 0 /\ stream \in Streams
  BY DEF Types, TypeOK, CallInv, AtSot
<1>2. N \in Nat
  BY <1>1, StreamFacts
<1>3. Here \in 1..N
  <2>1. CASE plan # <<>>
    BY <1>1, <1>2, <2>1 DEF Here
  <2>2. CASE plan = <<>>
    BY <1>1, <1>2, <2>2 DEF Here, AtSot
  <2> QED
    BY <2>1, <2>2
<1> QED
  BY <1>1, <1>3, StreamFacts

\* The index of every tile but that of the SOT stays; there, the place of the part
\* is stored unless the index is too small for it.
LEMMA IndexStep ==
  ASSUME Types, IndexInv, NEW i \in 1..N, Index(i)
  PROVE  /\ nb_tps' \in [Tiles -> Nat] /\ tlm_ok' \in BOOLEAN /\ last_sot' \in 0..N
         /\ start' \in [Tiles -> {NoIndex} \cup [PartNumbers(stream) -> 0..N]]
         /\ start'[Part(i).tile] # NoIndex
         /\ \A t \in Tiles : nb_tps'[t] > 0 => start'[t] # NoIndex
         /\ tlm_ok' => \A t \in Tiles :
              /\ start'[t] # NoIndex /\ nb_tps'[t] <= N
              /\ \A p \in 0..(nb_tps'[t] - 1) : start'[t][p] # Unset
         /\ tlm_ok' => tlm_ok /\ nb_tps' = nb_tps
<1> DEFINE p == Part(i)
           u == Part(i).tile
           known == IF start[u] = NoIndex THEN [q \in PartNumbers(stream) |-> Unset]
                                          ELSE start[u]
           new == IF p.part < nb_tps'[u] THEN [known EXCEPT ![p.part] = i] ELSE known
<1>1. /\ stream \in Streams /\ nb_tps \in [Tiles -> Nat] /\ tlm_ok \in BOOLEAN
      /\ start \in [Tiles -> {NoIndex} \cup [PartNumbers(stream) -> 0..N]]
      /\ last_sot \in 0..N /\ corr \in {0, 1}
  BY DEF Types, TypeOK
<1>2. /\ N \in Nat \ {0} /\ u \in Tiles /\ p.part \in Nat /\ p.num \in Nat
      /\ N = Len(stream.parts)
  BY <1>1, StreamFacts DEF N
<1>3. Declared(p) \in Nat
  BY <1>1, <1>2 DEF Declared
<1>4. /\ tlm_ok' = (tlm_ok /\ Declared(p) <= nb_tps[u])
      /\ nb_tps' = [nb_tps EXCEPT ![u] = IF tlm_ok' \/ p.num = 0 THEN @ ELSE Declared(p)]
      /\ start' = [start EXCEPT ![u] = new]
      /\ last_sot' = IF i > last_sot THEN i ELSE last_sot
  BY DEF Index
<1>5. known \in [PartNumbers(stream) -> 0..N]
  <2>1. CASE start[u] = NoIndex
    BY <1>2, <2>1 DEF Unset
  <2>2. CASE start[u] # NoIndex
    <3>1. start[u] \in {NoIndex} \cup [PartNumbers(stream) -> 0..N]
      BY <1>1, <1>2
    <3> QED
      BY <2>2, <3>1
  <2> QED
    BY <2>1, <2>2
<1>6. PartNumbers(stream) = 0..N
  BY DEF PartNumbers, N
<1>7. new \in [PartNumbers(stream) -> 0..N]
  <2> HIDE DEF known
  <2> DEFINE P == PartNumbers(stream)
  <2>1. known \in [P -> 0..N] /\ i \in 0..N
    BY <1>2, <1>5
  <2>2. [known EXCEPT ![p.part] = i] \in [P -> 0..N]
    <3> HIDE DEF P
    <3> QED
      BY <2>1
  <2> QED
    BY <1>5, <2>2
<1>8. start' \in [Tiles -> {NoIndex} \cup [PartNumbers(stream) -> 0..N]] /\ start'[u] = new
  <2> HIDE DEF new
  <2> QED
    BY <1>1, <1>2, <1>4, <1>7
<1>9. start'[u] # NoIndex
  <2> HIDE DEF new
  <2>1. new \in [PartNumbers(stream) -> Nat]
    BY <1>2, <1>7
  <2> QED
    BY <1>2, <1>8, <2>1, IndexIsSome
<1>10. nb_tps' \in [Tiles -> Nat] /\ tlm_ok' \in BOOLEAN /\ last_sot' \in 0..N
  <2>1. tlm_ok' \in BOOLEAN
    BY <1>1, <1>4, Zenon
  <2>2. nb_tps' \in [Tiles -> Nat]
    BY <1>1, <1>2, <1>3, <1>4
  <2>3. last_sot' \in 0..N
    BY <1>1, <1>2, <1>4
  <2> QED
    BY <2>1, <2>2, <2>3
<1>11. \A t \in Tiles : t # u => start'[t] = start[t] /\ nb_tps'[t] = nb_tps[t]
  <2> HIDE DEF new
  <2> QED
    BY <1>1, <1>2, <1>4
<1>12. ASSUME NEW t \in Tiles, nb_tps'[t] > 0 PROVE start'[t] # NoIndex
  BY <1>9, <1>11, <1>12 DEF IndexInv
<1>13. ASSUME tlm_ok' PROVE tlm_ok /\ nb_tps' = nb_tps
  <2>1. tlm_ok
    BY <1>4, <1>13
  <2>2. nb_tps' = [nb_tps EXCEPT ![u] = nb_tps[u]]
    BY <1>4, <1>13
  <2> QED
    BY <1>1, <1>2, <2>1, <2>2
<1>14. ASSUME tlm_ok', NEW t \in Tiles
       PROVE  /\ start'[t] # NoIndex /\ nb_tps'[t] <= N
              /\ \A q \in 0..(nb_tps'[t] - 1) : start'[t][q] # Unset
  <2>1. /\ start[t] # NoIndex /\ nb_tps[t] <= N /\ nb_tps'[t] = nb_tps[t]
        /\ nb_tps[t] \in Nat
        /\ \A q \in 0..(nb_tps[t] - 1) : start[t][q] # Unset
    BY <1>1, <1>13, <1>14 DEF IndexInv
  <2>2. CASE t # u
    BY <1>11, <2>1, <2>2
  <2>3. CASE t = u
    <3>1. known = start[u]
      BY <2>1, <2>3
    <3>2. ASSUME NEW q \in 0..(nb_tps[t] - 1) PROVE new[q] # Unset
      <4>1. q \in 0..N /\ known[q] # Unset
        BY <1>2, <2>1, <2>3, <3>1
      <4> HIDE DEF known
      <4>2. [known EXCEPT ![p.part] = i][q] # Unset
        BY <1>2, <1>5, <1>6, <4>1 DEF Unset
      <4> QED
        BY <4>1, <4>2
    <3> QED
      BY <1>8, <1>9, <2>1, <2>3, <3>2
  <2> QED
    BY <2>2, <2>3
<1> QED
  BY <1>8, <1>9, <1>10, <1>12, <1>13, <1>14

\* The marker after a tile-part keeps the call where it can go on.
LEMMA MarkerStep ==
  ASSUME stream \in Streams, UNCHANGED fileVars, NEW i \in 1..N, NEW t \in Tiles,
         NEW s \in {"TPHSOT", "NEOC"}, NextMarker(i, t, s)
  PROVE  /\ at' \in 2..(N + 1) /\ tile' \in Tiles
         /\ pc' \in {"header", "found", "failed"}
         /\ pc' = "header" => at' <= N /\ state' = s /\ tile' = t /\ i < N
         /\ pc' = "found" => state' = "EOC"
         /\ state' \in {s, "EOC"}
<1>1. N \in Nat \ {0} /\ stream.tiles \in Nat \ {0} /\ 0 \in Tiles /\ stream.eoc \in BOOLEAN
  BY StreamFacts
<1>2. Lone \in SUBSET Tiles /\ (Lone # {} => Min(Lone) \in Tiles)
  <2>1. Tiles' = Tiles
    BY SameStream
  <2>2. Lone \in SUBSET Tiles /\ Lone \in SUBSET Nat
    BY <1>1, <2>1 DEF Lone, Tiles
  <2> QED
    BY <2>2, MinIn
<1>3. CASE i < N
  BY <1>1, <1>3 DEF NextMarker
<1>4. CASE ~ (i < N) /\ stream.eoc
  BY <1>1, <1>4 DEF NextMarker
<1>5. CASE ~ (i < N) /\ ~ stream.eoc
  <2>1. CASE t = stream.tiles - 1 /\ Lone # {}
    BY <1>1, <1>2, <1>5, <2>1 DEF NextMarker
  <2>2. CASE ~ (t = stream.tiles - 1 /\ Lone # {})
    BY <1>1, <1>5, <2>2 DEF NextMarker
  <2> QED
    BY <2>1, <2>2
<1> QED
  BY <1>3, <1>4, <1>5

\* Everything a SOT stores has its type.
LEMMA SotStep ==
  ASSUME Types, IndexInv, CallInv, AtSot, NEW i, i = Here, ReadSot(i)
  PROVE  /\ part_no' = [part_no EXCEPT ![Part(i).tile] = Part(i).part]
         /\ part_no' \in [Tiles -> Nat \cup {-1}]
         /\ last_part' \in BOOLEAN /\ last_part' = (last_part \/ Part(i).psot0)
         /\ plan' \in Seq(1..N) /\ planned' = planned
         /\ [nb_parts EXCEPT ![Part(i).tile] = NbParts(Part(i))] \in [Tiles -> Nat]
         /\ NbParts(Part(i)) \in Nat
<1>1. /\ i \in 1..N /\ Part(i).tile \in Tiles /\ Part(i).part \in Nat /\ Part(i).num \in Nat
  BY HereInside
<1>2. /\ part_no \in [Tiles -> Nat \cup {-1}] /\ plan \in Seq(1..N) /\ corr \in {0, 1}
      /\ nb_parts \in [Tiles -> Nat] /\ last_part \in BOOLEAN /\ stream \in Streams
  BY DEF Types, TypeOK
<1>3. Part(i).psot0 \in BOOLEAN
  BY <1>1, <1>2, StreamFacts
<1>4. part_no' = [part_no EXCEPT ![Part(i).tile] = Part(i).part]
      /\ last_part' = (last_part \/ Part(i).psot0)
  BY DEF ReadSot
<1>5. part_no' \in [Tiles -> Nat \cup {-1}]
  BY <1>1, <1>2, <1>4
<1>6. last_part' \in BOOLEAN
  BY <1>2, <1>3, <1>4, Zenon
<1>7. plan' \in Seq(1..N) /\ planned' = planned
  <2>1. plan' = (IF plan # <<>> THEN Tail(plan) ELSE plan) /\ planned' = planned
    BY DEF ReadSot, Jump
  <2>2. plan # <<>> => Tail(plan) \in Seq(1..N)
    BY <1>2
  <2> QED
    BY <1>2, <2>1, <2>2
<1>8. NbParts(Part(i)) \in Nat
  BY <1>1, <1>2 DEF NbParts, Declared
<1> QED
  BY <1>1, <1>2, <1>4, <1>5, <1>6, <1>7, <1>8
-----------------------------------------------------------------------------
(***************************************************************************)
(* Types, IndexInv and CallInv: the calls of the application               *)
(***************************************************************************)
\* The index of the next state, in terms of this one's sets.
LEMMA IndexFrom ==
  ASSUME UNCHANGED fileVars,
         \A t \in Tiles : nb_tps'[t] > 0 => start'[t] # NoIndex,
         tlm_ok' => \A t \in Tiles :
           /\ start'[t] # NoIndex /\ nb_tps'[t] <= N
           /\ \A p \in 0..(nb_tps'[t] - 1) : start'[t][p] # Unset
  PROVE  IndexInv'
<1>1. N' = N /\ Tiles' = Tiles
  BY SameStream
<1> QED
  BY <1>1 DEF IndexInv

\* What is said of the index holds while the index stays.
LEMMA IndexKept ==
  ASSUME IndexInv, UNCHANGED <<fileVars, indexVars>>
  PROVE  IndexInv'
<1>1. N' = N /\ Tiles' = Tiles
  BY SameStream
<1>2. nb_tps' = nb_tps /\ start' = start /\ tlm_ok' = tlm_ok
  BY DEF indexVars
<1> QED
  BY <1>1, <1>2 DEF IndexInv

\* What an index holds are tile-parts, or nothing.
LEMMA IndexAt ==
  ASSUME Types, NEW t \in Tiles, start[t] # NoIndex
  PROVE  /\ start[t] \in [PartNumbers(stream) -> 0..N]
         /\ \A p \in 0..N : start[t][p] \in 0..N
<1> DEFINE F == [PartNumbers(stream) -> 0..N]
<1>1. start \in [Tiles -> {NoIndex} \cup F]
  BY DEF Types
<1>2. start[t] \in F
  <2> HIDE DEF F
  <2> QED
    BY <1>1
<1>3. PartNumbers(stream) = 0..N
  BY DEF PartNumbers, N
<1> QED
  BY <1>2, <1>3

\* The planned tile-parts are tile-parts of the codestream.
LEMMA PlanType ==
  ASSUME Types, IndexInv
  PROVE  PlanOfArea \in Seq(1..N)
<1> DEFINE starts(t) == {start[t][p] : p \in 0..(nb_tps[t] - 1)}
           S == UNION {starts(t) : t \in {u \in Tiles : InArea(u)}}
<1>1. /\ nb_tps \in [Tiles -> Nat] /\ stream \in Streams
      /\ start \in [Tiles -> {NoIndex} \cup [PartNumbers(stream) -> 0..N]]
  BY DEF Types, TypeOK
<1>2. N \in Nat /\ PartNumbers(stream) = 0..N
  BY <1>1, StreamFacts DEF PartNumbers, N
<1>3. CASE ~ tlm_ok
  BY <1>3 DEF PlanOfArea
<1>4. CASE tlm_ok
  <2>1. ASSUME NEW t \in Tiles, NEW p \in 0..(nb_tps[t] - 1) PROVE start[t][p] \in 1..N
    <3>1. nb_tps[t] \in Nat /\ nb_tps[t] <= N /\ start[t] # NoIndex /\ start[t][p] # 0
      BY <1>1, <1>4 DEF IndexInv, Unset
    <3>2. p \in 0..N
      BY <1>2, <3>1
    <3>3. start[t][p] \in 0..N
      BY <3>1, <3>2, IndexAt
    <3> QED
      BY <1>2, <3>1, <3>3
  <2>2. S \in SUBSET (1..N)
    BY <2>1
  <2>3. 1 \in Int /\ N \in Int
    BY <1>2
  <2>4. IsFiniteSet(1..N) /\ Cardinality(1..N) = IF 1 > N THEN 0 ELSE N - 1 + 1
    BY <2>3, FS_Interval, Zenon
  <2>5. IsFiniteSet(S) /\ S \in SUBSET Nat
    <3> HIDE DEF S
    <3>1. IsFiniteSet(S)
      BY <2>2, <2>4, FS_Subset
    <3>2. S \in SUBSET Nat
      BY <1>2, <2>2
    <3> QED
      BY <3>1, <3>2
  <2>6. Ascending(S) \in Seq(1..N)
    <3> HIDE DEF S
    <3>1. Ascending(S) \in Seq(S)
      BY <2>5, AscendingSeq
    <3> QED
      BY <2>2, <3>1, SeqWiden
  <2>7. PlanOfArea = Ascending(S) \/ PlanOfArea = <<>>
    BY DEF PlanOfArea
  <2>8. <<>> \in Seq(1..N)
    OBVIOUS
  <2> HIDE DEF S
  <2> QED
    BY <2>6, <2>7, <2>8, Zenon
<1> QED
  BY <1>3, <1>4

\* A seek is to a position of the codestream.
LEMMA SeekType ==
  ASSUME Types, IndexInv, NEW t \in Tiles
  PROVE  SeekTile(t) \in 0..(N + 1)
<1>1. /\ nb_tps \in [Tiles -> Nat] /\ stream \in Streams
      /\ start \in [Tiles -> {NoIndex} \cup [PartNumbers(stream) -> 0..N]]
      /\ at \in 0..(N + 1) /\ last_sot \in 0..N
  BY DEF Types, TypeOK
<1>2. N \in Nat /\ PartNumbers(stream) = 0..N
  BY <1>1, StreamFacts DEF PartNumbers, N
<1>3. CASE nb_tps[t] = 0 \/ start[0] = NoIndex
  BY <1>1, <1>2, <1>3 DEF SeekTile
<1>4. CASE nb_tps[t] # 0 /\ start[0] # NoIndex
  <2>1. start[t] # NoIndex
    BY <1>1, <1>4 DEF IndexInv
  <2>2. start[t][0] \in 0..N
    BY <1>2, <2>1, IndexAt
  <2> QED
    BY <1>2, <1>4, <2>2 DEF SeekTile
<1> QED
  BY <1>3, <1>4

\* The calls of the application keep the types and stay within the codestream.
LEMMA CallTypes ==
  ASSUME Types, IndexInv, CallInv, CallNext
  PROVE  Types' /\ IndexInv' /\ CallInv'
<1> USE DEF fileVars, planVars, tileVars, indexVars, apiVars
<1>0. [Next]_vars
  BY DEF Next
<1>1. UNCHANGED fileVars
  BY <1>0, FileKept
<1>2. IndexInv'
  <2>1. UNCHANGED indexVars
    BY DEF CallNext, SetArea, SetAreaFails, DecodeFast, DecodeKept, DecodeArea, GetTile,
           BeginDecode
  <2> QED
    BY <1>1, <2>1, IndexKept
<1>3. /\ stream \in Streams /\ N \in Nat \ {0} /\ stream.tiles \in Nat \ {0} /\ 0 \in Tiles
  BY StreamFacts DEF Types, TypeOK
<1>4. calls < MaxCalls /\ calls \in 0..MaxCalls => calls + 1 \in 0..MaxCalls
  BY DecoderAssumption
<1>5. <<>> \in Seq([tile : Tiles, data : Seq(1..N)]) /\ 0 \in 0..stream.tiles
  BY <1>3
<1>6. CASE SetArea \/ SetAreaFails
  <2>1. Types'
    BY <1>1, <1>6, TypesFrom, TypesOf DEF SetArea, SetAreaFails
  <2>2. CallInv'
    BY <1>6 DEF CallInv, InCall, SetArea, SetAreaFails, MaySetArea
  <2> QED
    BY <1>2, <2>1, <2>2
<1>7. CASE DecodeFast \/ DecodeKept \/ DecodeArea
  <2>1. /\ plan' \in Seq(1..N) /\ planned' \in BOOLEAN /\ tile' \in Tiles
    <3>1. CASE DecodeFast
      BY <3>1, TypesOf DEF DecodeFast
    <3>2. CASE DecodeKept
      <4>1. plan' = <<>> /\ tile' = 0 /\ planned' = FALSE
        BY <3>2 DEF DecodeKept
      <4>2. <<>> \in Seq(1..N)
        OBVIOUS
      <4> QED
        BY <1>3, <4>1, <4>2, Zenon
    <3>3. CASE DecodeArea
      <4>1. plan' = PlanOfArea /\ tile' = tile /\ planned' = (plan' # <<>>)
        BY <3>3 DEF DecodeArea
      <4>2. planned' \in BOOLEAN
        BY <4>1
      <4> QED
        BY <4>1, <4>2, PlanType, TypesOf, Zenon
    <3> QED
      BY <1>7, <3>1, <3>2, <3>3
  <2>2. /\ pc = "idle" /\ op' \in {"fast", "tiles"} /\ pc' \in {"found", "header", "failed", "decode"}
    BY <1>7 DEF DecodeFast, DecodeKept, DecodeArea, MayDecode, BeginDecode, EnterHeader
  <2>3. /\ BeginDecode(op') /\ calls < MaxCalls
    BY <1>7 DEF DecodeFast, DecodeKept, DecodeArea, MayDecode, BeginDecode
  <2>4. Types'
    BY <1>1, <1>5, <1>3, <1>4, <2>1, <2>2, <2>3, TypesFrom, TypesOf DEF BeginDecode
  <2>5. CallInv'
    BY <1>3, <2>2, <2>3 DEF CallInv, InCall, BeginDecode
  <2> QED
    BY <1>2, <2>4, <2>5
<1>8. ASSUME NEW t \in Tiles, GetTile(t) PROVE Types' /\ CallInv'
  <2>1. at' \in 0..(N + 1)
    BY <1>8, SeekType DEF GetTile
  <2>2. area' \in Areas
    BY <1>3, <1>8 DEF GetTile, Areas, Tiles
  <2>3. part_no' \in [Tiles -> Nat \cup {-1}]
    BY <1>8 DEF GetTile, ResetPartNumbers
  <2>4. /\ state' \in {"TPHSOT", "EOC", "NEOC"} /\ pc' \in {"found", "header", "failed"}
        /\ (pc' # "failed" => at' # 0)
    BY <1>8 DEF GetTile, NextState, EnterHeader, Unset, Types, TypeOK
  <2>5. Types'
    BY <1>1, <1>5, <1>3, <1>4, <1>8, <2>1, <2>2, <2>3, <2>4, TypesFrom, TypesOf
       DEF GetTile, MayGetTile
  <2>6. CallInv'
    BY <1>3, <1>8, <2>1, <2>4 DEF CallInv, InCall, GetTile
  <2> QED
    BY <2>5, <2>6
<1> QED
  BY <1>2, <1>6, <1>7, <1>8 DEF CallNext
-----------------------------------------------------------------------------
(***************************************************************************)
(* Types, IndexInv and CallInv: the loop over the tile-parts               *)
(***************************************************************************)
\* All there is up to the EOC is tile-parts.
LEMMA UpToType ==
  ASSUME N \in Nat, NEW i \in 1..N
  PROVE  UpToEOC(i) \in Seq(1..N)
<1>1. N - i + 1 \in Nat
  OBVIOUS
<1>2. \A k \in 1..(N - i + 1) : i + k - 1 \in 1..N
  OBVIOUS
<1> QED
  BY <1>1, <1>2 DEF UpToEOC

\* What is collected is tile-parts.
LEMMA TakeStep ==
  ASSUME Types, IndexInv, CallInv, NEW i \in 1..N, Takes(i)
  PROVE  /\ AtSot /\ i = Here /\ ReadSot(i) /\ Part(i).tile \in Tiles
         /\ data' \in [Tiles -> Seq(1..N)]
         /\ AfterSod(i) \in 1..N /\ SodState(i) \in {"TPHSOT", "NEOC"}
<1>1. AtSot /\ i = Here /\ ReadSot(i) /\ Collect(i)
  BY DEF Takes
<1>2. Part(i).tile \in Tiles /\ N \in Nat /\ data \in [Tiles -> Seq(1..N)]
  BY <1>1, HereInside, StreamFacts, TypesOf
<1>3. ASSUME NEW q \in Seq(1..N)
      PROVE  [data EXCEPT ![Part(i).tile] = @ \o q] \in [Tiles -> Seq(1..N)]
  <2>1. data[Part(i).tile] \o q \in Seq(1..N)
    BY <1>2
  <2> QED
    BY <1>2, <2>1
<1>4. UpToEOC(i) \in Seq(1..N) /\ <<i>> \in Seq(1..N)
  BY <1>2, UpToType
<1>5. data' \in [Tiles -> Seq(1..N)]
  <2>1. CASE last_part'
    <3>1. data' = [data EXCEPT ![Part(i).tile] = @ \o UpToEOC(i)]
      BY <1>1, <2>1 DEF Collect
    <3> QED
      BY <1>3, <1>4, <3>1
  <2>2. CASE ~ last_part'
    <3>1. data' = [data EXCEPT ![Part(i).tile] = @ \o <<i>>]
      BY <1>1, <2>2 DEF Collect
    <3> QED
      BY <1>3, <1>4, <3>1
  <2> QED
    BY <2>1, <2>2
<1>6. AfterSod(i) \in 1..N /\ SodState(i) \in {"TPHSOT", "NEOC"}
  BY <1>2 DEF AfterSod, SodState
<1> QED
  BY <1>1, <1>2, <1>5, <1>6

\* A correction adds a part to the tiles that have a number of them.
LEMMA OneMoreType ==
  ASSUME NEW nb \in [Tiles -> Nat]
  PROVE  OneMore(nb) \in [Tiles -> Nat]
<1>1. \A t \in Tiles : nb[t] \in Nat
  OBVIOUS
<1> QED
  BY <1>1 DEF OneMore

\* Where the TLM leads within a tile there is a tile-part.
LEMMA JumpType ==
  ASSUME Types, IndexInv, CallInv, NEW i \in 1..N, AtSot, i = Here, ReadSot(i),
         JumpsToNext(Part(i))
  PROVE  start'[Part(i).tile][Part(i).part + 1] \in 1..N
<1> DEFINE u == Part(i).tile
           F == [PartNumbers(stream) -> 0..N]
           p == Part(i).part + 1
<1>1. /\ u \in Tiles /\ Part(i).part \in Nat /\ N \in Nat
  BY HereInside, StreamFacts, TypesOf
<1>2. /\ start' \in [Tiles -> {NoIndex} \cup F] /\ start'[u] # NoIndex
      /\ nb_tps' \in [Tiles -> Nat]
      /\ tlm_ok' => /\ nb_tps'[u] <= N
                    /\ \A q \in 0..(nb_tps'[u] - 1) : start'[u][q] # Unset
  BY <1>1, IndexStep DEF ReadSot
<1>3. tlm_ok' /\ p < nb_tps'[u]
  BY DEF JumpsToNext
<1>4. p \in 0..N /\ p \in 0..(nb_tps'[u] - 1)
  BY <1>1, <1>2, <1>3
<1>5. start'[u] \in F
  <2> HIDE DEF F
  <2> QED
    BY <1>1, <1>2
<1>6. start'[u][p] \in 0..N
  BY <1>4, <1>5 DEF PartNumbers, N
<1>7. start'[u][p] # 0
  BY <1>2, <1>3, <1>4 DEF Unset
<1> QED
  BY <1>1, <1>6, <1>7

\* So does the loop over the tile-parts.
LEMMA PartTypes ==
  ASSUME Types, IndexInv, CallInv, PartNext
  PROVE  Types' /\ IndexInv' /\ CallInv'
<1> USE DEF fileVars, planVars, tileVars, indexVars, apiVars
<1>1. stream' = stream /\ mode' = mode /\ exact' = exact
  BY FileKept DEF Next
<1>2. /\ stream \in Streams /\ N \in Nat \ {0} /\ stream.tiles \in Nat \ {0} /\ 0 \in Tiles
  BY StreamFacts, TypesOf
<1>3. ASSUME ReadSot(Here), AtSot
      PROVE  /\ IndexInv'
             /\ nb_tps' \in [Tiles -> Nat] /\ tlm_ok' \in BOOLEAN /\ last_sot' \in 0..N
             /\ start' \in [Tiles -> {NoIndex} \cup [PartNumbers(stream) -> 0..N]]
             /\ part_no' \in [Tiles -> Nat \cup {-1}] /\ last_part' \in BOOLEAN
             /\ plan' \in Seq(1..N) /\ planned' \in BOOLEAN
             /\ [nb_parts EXCEPT ![Part(Here).tile] = NbParts(Part(Here))] \in [Tiles -> Nat]
  <2>1. Here \in 1..N
    BY <1>3, HereInside
  <2>2. Index(Here)
    BY <1>3 DEF ReadSot
  <2>3. IndexInv'
    BY <1>1, <2>1, <2>2, IndexStep, IndexFrom
  <2> QED
    BY <1>3, <2>1, <2>2, <2>3, IndexStep, SotStep, TypesOf
<1>4. CASE HeaderEnds
  <2>1. Types'
    BY <1>1, <1>4, TypesFrom, TypesOf DEF HeaderEnds
  <2>2. IndexInv'
    BY <1>1, <1>4, IndexKept DEF HeaderEnds
  <2>3. CallInv'
    BY <1>1, <1>4 DEF HeaderEnds, CallInv, InCall
  <2> QED
    BY <2>1, <2>2, <2>3
<1>5. CASE SotFails \/ SkipFails \/ SodFails
  <2>1. Fail
    BY <1>5 DEF SotFails, SkipFails, SodFails
  <2>2. Types'
    BY <1>1, <2>1, TypesFrom, TypesOf DEF Fail
  <2>3. IndexInv'
    BY <1>1, <2>1, IndexKept DEF Fail
  <2>4. CallInv'
    BY <2>1 DEF Fail, CallInv, InCall
  <2> QED
    BY <2>2, <2>3, <2>4
<1>6. CASE SkipNothing
  <2>1. AtSot /\ ReadSot(Here) /\ last_part' /\ pc' = "sod" /\ at' = Here
    BY <1>6 DEF SkipNothing
  <2>2. Here \in 1..N /\ Part(Here).tile \in Tiles
    BY <2>1, HereInside
  <2>3. Types'
    <3>1. /\ nb_tps' \in [Tiles -> Nat] /\ tlm_ok' \in BOOLEAN /\ last_sot' \in 0..N
          /\ start' \in [Tiles -> {NoIndex} \cup [PartNumbers(stream) -> 0..N]]
          /\ part_no' \in [Tiles -> Nat \cup {-1}] /\ last_part' \in BOOLEAN
          /\ plan' \in Seq(1..N) /\ planned' \in BOOLEAN
          /\ nb_parts' \in [Tiles -> Nat]
      BY <1>3, <1>6, <2>1 DEF SkipNothing
    <3>2. /\ at' \in 0..(N + 1) /\ tile' \in Tiles /\ state' = "TPHSOT" /\ pc' = "sod"
          /\ UNCHANGED <<can_decode, corr, checked, data, apiVars, nr_tiles, image>>
      BY <1>2, <1>6, <2>1, <2>2 DEF SkipNothing
    <3> QED
      BY <1>1, <3>1, <3>2, TypesFrom, TypesOf
  <2>4. N' = N
    BY <1>1, SameStream
  <2>5. CallInv'
    BY <1>1, <1>2, <1>6, <2>1, <2>2, <2>4 DEF SkipNothing, CallInv, InCall, AtSot
  <2> QED
    BY <1>3, <2>1, <2>3, <2>5
<1>7. CASE SkipPart
  <2>1. AtSot /\ ReadSot(Here) /\ NextMarker(Here, Part(Here).tile, "TPHSOT")
    BY <1>7 DEF SkipPart
  <2>2. Here \in 1..N /\ Part(Here).tile \in Tiles
    BY <2>1, HereInside
  <2>3. /\ at' \in 2..(N + 1) /\ tile' \in Tiles /\ pc' \in {"header", "found", "failed"}
        /\ state' \in {"TPHSOT", "EOC"}
    BY <1>1, <1>2, <2>1, <2>2, MarkerStep
  <2>4. Types'
    <3>1. /\ nb_tps' \in [Tiles -> Nat] /\ tlm_ok' \in BOOLEAN /\ last_sot' \in 0..N
          /\ start' \in [Tiles -> {NoIndex} \cup [PartNumbers(stream) -> 0..N]]
          /\ part_no' \in [Tiles -> Nat \cup {-1}] /\ last_part' \in BOOLEAN
          /\ plan' \in Seq(1..N) /\ planned' \in BOOLEAN
          /\ nb_parts' \in [Tiles -> Nat]
      BY <1>3, <1>7, <2>1 DEF SkipPart
    <3>2. /\ at' \in 0..(N + 1)
          /\ UNCHANGED <<can_decode, corr, checked, data, apiVars, nr_tiles, image>>
      BY <1>2, <1>7, <2>3 DEF SkipPart
    <3> QED
      BY <1>1, <2>3, <3>1, <3>2, TypesFrom, TypesOf
  <2>5. CallInv'
    BY <1>1, <1>2, <1>7, <2>1, <2>3 DEF SkipPart, CallInv, InCall, AtSot
  <2> QED
    BY <1>3, <2>1, <2>4, <2>5
<1>8. ASSUME NEW i \in 1..N, TakeAndJump(i) \/ TakeAndGoOn(i) \/ TakeLast(i) \/ TakeAndCorrect(i)
      PROVE  Types' /\ IndexInv' /\ CallInv'
  <2>1. Takes(i)
    BY <1>8 DEF TakeAndJump, TakeAndGoOn, TakeLast, TakeAndCorrect
  <2>2. /\ AtSot /\ i = Here /\ ReadSot(i) /\ Part(i).tile \in Tiles
        /\ data' \in [Tiles -> Seq(1..N)]
        /\ AfterSod(i) \in 1..N /\ SodState(i) \in {"TPHSOT", "NEOC"}
    BY <2>1, TakeStep
  <2> DEFINE nb == [nb_parts EXCEPT ![Part(i).tile] = NbParts(Part(i))]
  <2>3. nb \in [Tiles -> Nat]
    BY <1>3, <2>2
  <2>4. /\ at' \in 1..(N + 1) /\ tile' \in Tiles /\ pc' \in {"header", "found", "failed"}
        /\ state' \in {"TPHSOT", "NEOC", "EOC"}
    <3>1. CASE TakeAndJump(i)
      BY <1>2, <2>2, <3>1, JumpType DEF TakeAndJump
    <3>2. CASE TakeLast(i)
      BY <1>2, <2>2, <3>2 DEF TakeLast
    <3>3. CASE TakeAndGoOn(i) \/ TakeAndCorrect(i)
      <4>1. NextMarker(AfterSod(i), Part(i).tile, SodState(i))
        BY <3>3 DEF TakeAndGoOn, TakeAndCorrect
      <4>2. /\ at' \in 2..(N + 1) /\ tile' \in Tiles /\ pc' \in {"header", "found", "failed"}
            /\ state' \in {SodState(i), "EOC"}
        BY <1>1, <1>2, <2>2, <4>1, MarkerStep
      <4> QED
        BY <1>2, <2>2, <4>2
    <3> QED
      BY <1>8, <3>1, <3>2, <3>3
  <2>5. nb_parts' \in [Tiles -> Nat]
    <3>1. OneMore(nb) \in [Tiles -> Nat]
      BY <2>3, OneMoreType
    <3>2. nb_parts' \in {nb, OneMore(nb)}
      BY <1>8 DEF TakeAndJump, TakeAndGoOn, TakeLast, TakeAndCorrect
    <3> QED
      BY <2>3, <3>1, <3>2
  <2>6. /\ can_decode' \in BOOLEAN /\ corr' \in {0, 1} /\ checked' \in BOOLEAN
        /\ UNCHANGED <<apiVars, nr_tiles, image>>
    BY <1>8, TypesOf DEF TakeAndJump, TakeAndGoOn, TakeLast, TakeAndCorrect
  <2>7. Types'
    <3>1. /\ nb_tps' \in [Tiles -> Nat] /\ tlm_ok' \in BOOLEAN /\ last_sot' \in 0..N
          /\ start' \in [Tiles -> {NoIndex} \cup [PartNumbers(stream) -> 0..N]]
          /\ part_no' \in [Tiles -> Nat \cup {-1}] /\ last_part' \in BOOLEAN
          /\ plan' \in Seq(1..N) /\ planned' \in BOOLEAN
      BY <1>3, <2>2
    <3>2. at' \in 0..(N + 1)
      BY <1>2, <2>4
    <3> QED
      BY <1>1, <2>2, <2>4, <2>5, <2>6, <3>1, <3>2, TypesFrom, TypesOf
  <2>8. CallInv'
    BY <1>1, <1>2, <2>2, <2>4, <2>6 DEF CallInv, InCall, AtSot
  <2> QED
    BY <1>3, <2>2, <2>7, <2>8
<1>9. CASE TakeUnwanted
  <2>1. at \in 1..N /\ pc = "sod"
    BY <1>2, <1>9, TypesOf DEF CallInv, TakeUnwanted
  <2>2. data' \in [Tiles -> Seq(1..N)]
    <3>1. UpToEOC(at) \in Seq(1..N)
      BY <1>2, <2>1, UpToType
    <3>2. data \in [Tiles -> Seq(1..N)] /\ tile \in Tiles
      BY TypesOf
    <3>3. data[tile] \o UpToEOC(at) \in Seq(1..N)
      BY <3>1, <3>2
    <3> QED
      BY <1>9, <3>2, <3>3 DEF TakeUnwanted
  <2>3. /\ at' \in 2..(N + 1) /\ tile' \in Tiles /\ pc' \in {"header", "found", "failed"}
        /\ state' \in {"TPHSOT", "EOC"}
    <3>1. NextMarker(N, tile, "TPHSOT") /\ N \in 1..N
      BY <1>2, <1>9 DEF TakeUnwanted
    <3> QED
      BY <1>1, <1>2, <3>1, MarkerStep, TypesOf
  <2>4. Types'
    <3>1. /\ at' \in 0..(N + 1)
          /\ UNCHANGED <<part_no, nb_parts, can_decode, last_part, corr, checked, planVars,
                         indexVars, apiVars, nr_tiles, image>>
      BY <1>2, <1>9, <2>3 DEF TakeUnwanted
    <3> QED
      BY <1>1, <2>2, <2>3, <3>1, TypesFrom, TypesOf
  <2>5. IndexInv'
    BY <1>1, <1>9, IndexKept DEF TakeUnwanted
  <2>6. CallInv'
    BY <1>1, <1>2, <1>9, <2>1, <2>3 DEF TakeUnwanted, CallInv, InCall
  <2> QED
    BY <2>4, <2>5, <2>6
<1> QED
  BY <1>4, <1>5, <1>6, <1>7, <1>8, <1>9 DEF PartNext
-----------------------------------------------------------------------------
(***************************************************************************)
(* Types, IndexInv and CallInv: the tiles                                  *)
(***************************************************************************)
\* What is put into the image is tiles, with tile-parts for data.
LEMMA ImageStep ==
  ASSUME Types, DecodesTile
  PROVE  /\ image' \in Seq([tile : Tiles, data : Seq(1..N)])
         /\ tile' \in Tiles /\ state' \in {"TPHSOT", "EOC", "NEOC"} /\ can_decode' \in BOOLEAN
         /\ pc = "decode"
         /\ UNCHANGED <<fileVars, last_part, corr, checked, part_no, nb_parts, indexVars,
                        apiVars>>
<1> DEFINE R == [tile : Tiles, data : Seq(1..N)]
           one == [tile |-> tile, data |-> data[tile]]
<1>1. /\ image \in Seq(R) /\ tile \in Tiles /\ data \in [Tiles -> Seq(1..N)]
      /\ state \in {"TPHSOT", "EOC", "NEOC"} /\ 0 \in Tiles
  BY TypesOf, StreamFacts
<1>2. one \in R
  BY <1>1
<1>3. image' = image \/ image' = Append(image, one)
  BY DEF DecodesTile
<1>4. image' \in Seq(R)
  <2> HIDE DEF R, one
  <2>1. Append(image, one) \in Seq(R)
    BY <1>1, <1>2
  <2> QED
    BY <1>1, <1>3, <2>1, Zenon
<1>5. tile' \in Tiles /\ state' \in {"TPHSOT", "EOC", "NEOC"} /\ can_decode' \in BOOLEAN
  BY <1>1 DEF DecodesTile
<1> QED
  BY <1>4, <1>5 DEF DecodesTile

\* Forgetting a tile leaves tile-parts.
LEMMA ForgetType ==
  ASSUME Types, NEW t \in Tiles, Forget(t)
  PROVE  data' \in [Tiles -> Seq(1..N)]
<1>1. data \in [Tiles -> Seq(1..N)] /\ <<>> \in Seq(1..N)
  BY TypesOf
<1> QED
  BY <1>1 DEF Forget

\* So do the steps of the tiles.
LEMMA TileTypes ==
  ASSUME Types, IndexInv, CallInv, TileNext
  PROVE  Types' /\ IndexInv' /\ CallInv'
<1> USE DEF fileVars, planVars, tileVars, indexVars, apiVars
<1>1. stream' = stream /\ mode' = mode /\ exact' = exact
  BY FileKept DEF Next
<1>2. /\ stream \in Streams /\ N \in Nat \ {0} /\ stream.tiles \in Nat \ {0} /\ 0 \in Tiles
  BY StreamFacts, TypesOf
<1>3. N' = N
  BY <1>1, SameStream
<1>4. IndexInv'
  <2>1. UNCHANGED indexVars
    BY DEF TileNext, FindTile, NoTile, DecodeFails, DecodeBroken, MarkerFails, FastTile,
           AreaTile, WantedTile, OtherTile, DecodesTile, Fail
  <2> QED
    BY <1>1, <2>1, IndexKept
<1>5. CASE FindTile
  <2>1. tile' \in Tiles
    <3>1. Candidates \in SUBSET Tiles /\ Candidates \in SUBSET Nat
      BY <1>2 DEF Candidates, Tiles
    <3>2. Candidates # {} => Min(Candidates) \in Tiles
      BY <3>1, MinIn
    <3> QED
      BY <1>5, <3>2, TypesOf DEF FindTile, TileFound
  <2>2. Types'
    BY <1>1, <1>5, <2>1, TypesFrom, TypesOf DEF FindTile
  <2>3. CallInv'
    BY <1>1, <1>3, <1>5 DEF FindTile, CallInv, InCall
  <2> QED
    BY <1>4, <2>2, <2>3
<1>6. CASE NoTile \/ DecodeFails \/ DecodeBroken \/ MarkerFails
  <2>1. /\ pc' \in {"idle", "failed", "broken"} /\ pc \in {"found", "decode"}
        /\ UNCHANGED <<state, at, tile, can_decode, last_part, corr, checked, planVars,
                       tileVars, indexVars, apiVars, nr_tiles, image>>
    BY <1>6 DEF NoTile, DecodeFails, DecodeBroken, MarkerFails, Fail, Return
  <2>2. Types'
    BY <1>1, <2>1, TypesFrom, TypesOf
  <2>3. CallInv'
    BY <2>1 DEF CallInv, InCall
  <2> QED
    BY <1>4, <2>2, <2>3
<1>7. CASE FastTile \/ AreaTile \/ WantedTile \/ OtherTile
  <2>1. DecodesTile
    BY <1>7 DEF FastTile, AreaTile, WantedTile, OtherTile
  <2>2. /\ image' \in Seq([tile : Tiles, data : Seq(1..N)])
        /\ tile' \in Tiles /\ state' \in {"TPHSOT", "EOC", "NEOC"} /\ can_decode' \in BOOLEAN
        /\ UNCHANGED <<last_part, corr, checked, part_no, nb_parts, indexVars, apiVars>>
        /\ pc = "decode"
    BY <2>1, ImageStep
  <2>3. tile \in Tiles /\ data \in [Tiles -> Seq(1..N)] /\ at \in 0..(N + 1)
        /\ nr_tiles \in 0..stream.tiles
    BY TypesOf
  <2>4. /\ data' \in [Tiles -> Seq(1..N)] /\ UNCHANGED planVars
    <3>1. data' = data \/ Forget(tile)
      BY <1>7 DEF FastTile, AreaTile, WantedTile, OtherTile
    <3> QED
      BY <1>7, <2>3, <3>1, ForgetType DEF FastTile, AreaTile, WantedTile, OtherTile
  <2>5. /\ at' \in 0..(N + 1) /\ at' > 0
        /\ pc' \in {"idle", "header", "found", "failed"}
    BY <1>2, <1>7, <2>2, <2>3
       DEF FastTile, AreaTile, WantedTile, OtherTile, CallInv, EnterHeader, Return
  <2>6. /\ nr_tiles' \in 0..stream.tiles
        /\ op = "tiles" /\ pc' \in {"header", "found"} => nr_tiles' < stream.tiles
    <3>1. CASE AreaTile
      <4>1. nr_tiles < stream.tiles /\ nr_tiles' = nr_tiles + 1
        BY <2>2, <3>1 DEF AreaTile, CallInv, InCall
      <4>2. nr_tiles' = stream.tiles => pc' \in {"idle", "failed"}
        BY <3>1 DEF AreaTile, Return
      <4>3. nr_tiles + 1 \in 0..stream.tiles
            /\ (nr_tiles + 1 # stream.tiles => nr_tiles + 1 < stream.tiles)
        BY <1>2, <2>3, <4>1
      <4> QED
        BY <4>1, <4>2, <4>3
    <3>2. CASE FastTile \/ WantedTile \/ OtherTile
      BY <2>3, <3>2 DEF FastTile, WantedTile, OtherTile
    <3> QED
      BY <1>7, <3>1, <3>2
  <2>7. Types'
    BY <1>1, <2>2, <2>4, <2>5, <2>6, TypesFrom, TypesOf
  <2>8. CallInv'
    BY <1>1, <2>2, <2>5, <2>6 DEF CallInv, InCall
  <2> QED
    BY <1>4, <2>7, <2>8
<1> QED
  BY <1>5, <1>6, <1>7 DEF TileNext

\* So does every step.
LEMMA TypesNext ==
  ASSUME Types, IndexInv, CallInv, [Next]_vars
  PROVE  Types' /\ IndexInv' /\ CallInv'
<1>1. CASE UNCHANGED vars
  <2>1. UNCHANGED <<fileVars, state, at, tile, can_decode, last_part, corr, checked, planVars,
                    tileVars, indexVars, apiVars, pc, nr_tiles, image>>
    BY <1>1 DEF vars
  <2>2. Types'
    BY <2>1, TypesFrom, TypesOf DEF fileVars, planVars, tileVars, indexVars, apiVars
  <2>3. IndexInv'
    BY <2>1, IndexKept
  <2>4. CallInv'
    BY <2>1 DEF CallInv, InCall, fileVars, indexVars, apiVars, N
  <2> QED
    BY <2>2, <2>3, <2>4
<1>2. CASE Over
  BY <1>1, <1>2 DEF Over
<1> QED
  BY <1>1, <1>2, CallTypes, PartTypes, TileTypes DEF Next
-----------------------------------------------------------------------------
(***************************************************************************)
(* ModeInv                                                                 *)
(***************************************************************************)
\* An application that has decoded an area does not ask for tiles, and the reverse.
LEMMA ModeNext ==
  ASSUME Types, ModeInv, [Next]_vars
  PROVE  ModeInv'
<1> USE DEF fileVars, planVars, tileVars, indexVars, apiVars
<1>1. stream' = stream /\ Tiles' = Tiles /\ Single' = Single
  BY FileKept, SameStream
<1>2. /\ wanted \in Tiles \cup {-1} /\ -1 \notin Tiles /\ tile \in Tiles
      /\ \A t \in Tiles : t \in Int
  BY TypesOf, StreamFacts DEF Tiles
<1>3. CASE UNCHANGED <<wanted, area, op, used, data, part_no>>
           /\ (InCall' /\ wanted # -1 => InCall /\ image' = image)
           /\ (InCall' => InCall)
  BY <1>1, <1>3 DEF ModeInv, Fresh
<1>4. CASE CallNext
  <2>1. CASE SetArea
    <3>1. used' = "area" /\ wanted' = wanted /\ op' = op /\ ~ InCall'
          /\ (used = "new" \/ (Single /\ used = "decoded"))
          /\ data' = data /\ part_no' = part_no
      BY <2>1 DEF SetArea, MaySetArea, InCall
    <3> QED
      BY <1>1, <3>1 DEF ModeInv, Fresh
  <2>2. CASE SetAreaFails
    <3>1. UNCHANGED <<wanted, area, op, used, data, part_no>> /\ ~ InCall'
      BY <2>2 DEF SetAreaFails, InCall
    <3> QED
      BY <1>3, <3>1
  <2>3. CASE DecodeFast \/ DecodeKept \/ DecodeArea
    <3>1. /\ used' = "decoded" /\ wanted' = wanted /\ op' \in {"fast", "tiles"}
          /\ used \in {"new", "area"}
      BY <2>3 DEF DecodeFast, DecodeKept, DecodeArea, MayDecode, BeginDecode
    <3> QED
      BY <3>1 DEF ModeInv, Fresh
  <2>4. ASSUME NEW t \in Tiles, GetTile(t) PROVE ModeInv'
    <3>1. /\ used' = "tiles" /\ wanted' = t /\ op' = "tile" /\ image' = <<>>
          /\ area'.from = t /\ area'.to = t + 1
      BY <2>4 DEF GetTile
    <3> QED
      BY <1>2, <3>1 DEF ModeInv, Fresh
  <2> QED
    BY <1>4, <2>1, <2>2, <2>3, <2>4 DEF CallNext
<1>5. CASE PartNext
  <2>1. /\ UNCHANGED <<wanted, area, op, used, image>> /\ InCall
    BY <1>5 DEF PartNext, HeaderEnds, SotFails, SkipNothing, SkipPart, SkipFails, SodFails,
         TakeAndJump, TakeAndGoOn, TakeLast, TakeAndCorrect, TakeUnwanted, Fail, Takes, AtSot,
         InCall
  <2> QED
    BY <2>1 DEF ModeInv, Fresh
<1>6. CASE TileNext
  <2>1. /\ UNCHANGED <<wanted, area, op, used>> /\ InCall
    BY <1>6 DEF TileNext, FindTile, NoTile, DecodeFails, DecodeBroken, MarkerFails, FastTile,
         AreaTile, WantedTile, OtherTile, DecodesTile, Fail, InCall
  <2>2. wanted # -1 /\ InCall' => image' = image
    <3>1. CASE FindTile \/ NoTile \/ DecodeFails \/ DecodeBroken \/ MarkerFails
      BY <3>1 DEF FindTile, NoTile, DecodeFails, DecodeBroken, MarkerFails, Fail
    <3>2. CASE FastTile \/ AreaTile
      BY <3>2 DEF FastTile, AreaTile, ModeInv
    <3>3. CASE WantedTile
      BY <3>3 DEF WantedTile, Return, InCall
    <3>4. CASE OtherTile
      <4>1. tile # wanted /\ DecodesTile
        BY <3>4 DEF OtherTile
      <4>2. wanted # -1 => ~ InArea(tile)
        BY <1>2, <4>1 DEF ModeInv, InArea
      <4> QED
        BY <4>1, <4>2 DEF DecodesTile
    <3> QED
      BY <1>6, <3>1, <3>2, <3>3, <3>4 DEF TileNext
  <2> QED
    BY <2>1, <2>2 DEF ModeInv, Fresh
<1>7. CASE Over \/ UNCHANGED vars
  <2>1. UNCHANGED <<wanted, area, op, used, data, part_no, pc, image>>
    BY <1>7 DEF Over, vars
  <2> QED
    BY <1>3, <2>1 DEF InCall
<1> QED
  BY <1>4, <1>5, <1>6, <1>7 DEF Next

-----------------------------------------------------------------------------
(***************************************************************************)
(* Book: the calls of the application                                      *)
(***************************************************************************)
\* The tile-parts of a tile stay in order while nothing is added to them.
LEMMA OrderKept ==
  ASSUME UNCHANGED fileVars, NEW t, InOrder(t), data'[t] = data[t] \/ data'[t] = <<>>
  PROVE  InOrder(t)'
<1>1. \A i : Part(i)' = Part(i)
  BY SameStream
<1>2. CASE data'[t] = data[t]
  BY <1>1, <1>2 DEF InOrder
<1>3. CASE data'[t] = <<>>
  BY <1>3 DEF InOrder
<1> QED
  BY <1>2, <1>3

\* Of a codestream of one tile, that is the area, whatever it is.
LEMMA SingleArea ==
  ASSUME Types, Single, NEW a \in Areas
  PROVE  /\ Tiles = {0} /\ tile = 0
         /\ a.from <= 0 /\ 0 < a.to
<1>1. Tiles = {0} /\ tile \in Tiles
  BY TypesOf DEF Single, Tiles
<1>2. a.from \in {0} /\ a.to \in {0, 1} /\ a.from < a.to
  BY <1>1 DEF Areas, Single
<1> QED
  BY <1>1, <1>2

\* No call of the application disturbs what has been collected.
LEMMA CallBook ==
  ASSUME IInv, NoPsot0, CallNext
  PROVE  Book'
<1> USE DEF fileVars, planVars, tileVars, indexVars, apiVars
<1>1. UNCHANGED fileVars /\ Tiles' = Tiles /\ Single' = Single
  BY FileKept, SameStream DEF Next
<1>2. /\ wanted \in Tiles \cup {-1} /\ -1 \notin Tiles /\ tile \in Tiles /\ area \in Areas
      /\ Types /\ 0 \in Tiles
  BY TypesOf, StreamFacts DEF Tiles, IInv
<1>3. pc = "idle" /\ UNCHANGED <<data, nb_parts, checked, can_decode, last_part>>
  BY DEF CallNext, SetArea, SetAreaFails, MaySetArea, DecodeFast, DecodeKept, DecodeArea, MayDecode,
         GetTile, MayGetTile, BeginDecode
<1>4. /\ \A t \in Tiles : InOrder(t) /\ (data[t] # <<>> => InArea(t))
      /\ Collected /\ Found /\ ~ can_decode
  BY <1>3 DEF IInv, Book, Usable, Found
<1>5. \A t \in Tiles : InOrder(t)'
  BY <1>1, <1>3, <1>4, OrderKept
<1>6. CASE SetArea
  <2>1. /\ area' \in Areas
        /\ UNCHANGED <<state, tile, wanted, part_no, pc>>
        /\ used = "new" \/ (Single /\ used = "decoded")
    BY <1>1, <1>6 DEF SetArea, MaySetArea
  <2>2. wanted = -1
    BY <2>1 DEF IInv, ModeInv
  <2>3. CASE used = "new"
    <3>1. \A t \in Tiles : data[t] = <<>> /\ part_no[t] = -1
      BY <2>3 DEF IInv, ModeInv, Fresh
    <3>2. \A t \in Tiles : Counted(t)'
      BY <1>3, <2>1, <3>1 DEF Counted
    <3>3. Collected'
      BY <1>1, <1>3, <2>1, <2>2, <3>2 DEF Collected
    <3>4. Found'
      BY <1>1, <1>2, <1>3, <1>4, <2>1, <2>2, <3>1 DEF Found, NbClosed
    <3> QED
      BY <1>1, <1>3, <1>5, <3>1, <3>3, <3>4 DEF Book
  <2>4. CASE Single
    <3>1. \A t \in Tiles : InArea(t) /\ InArea(t)'
      BY <1>2, <2>1, <2>4, SingleArea DEF InArea
    <3>2. Collected'
      BY <1>1, <1>3, <1>4, <2>1, <2>2, <3>1 DEF Collected, Counted, Closed, NbClosed
    <3>3. Found'
      BY <1>1, <1>3, <1>4, <2>1, <2>2 DEF Found, Closed, NbClosed
    <3> QED
      BY <1>1, <1>5, <3>1, <3>2, <3>3 DEF Book
  <2> QED
    BY <2>1, <2>3, <2>4
<1>7. CASE SetAreaFails
  BY <1>1, <1>3, <1>4, <1>5, <1>7 DEF SetAreaFails, Book, Usable, InArea
<1>8. CASE DecodeFast \/ DecodeKept \/ DecodeArea
  <2>1. /\ used \in {"new", "area"} /\ UNCHANGED <<state, area, wanted, part_no>>
        /\ \/ EnterHeader(state)
           \/ Single /\ data[0] # <<>> /\ tile' = 0 /\ pc' = "decode"
    BY <1>8 DEF DecodeFast, DecodeKept, DecodeArea, MayDecode, BeginDecode
  <2>2. wanted = -1
    BY <2>1 DEF IInv, ModeInv
  <2>3. \A t \in Tiles : data'[t] # <<>> => InArea(t)'
    BY <1>3, <1>4, <2>1 DEF InArea
  <2>4. Collected'
    BY <1>1, <1>3, <1>4, <2>1, <2>2 DEF Collected, Counted, Closed, NbClosed, InArea
  <2>5. Found'
    <3>1. CASE EnterHeader(state)
      BY <1>1, <1>3, <1>4, <2>1, <2>2, <3>1 DEF Found, EnterHeader
    <3>2. CASE Single /\ data[0] # <<>> /\ tile' = 0 /\ pc' = "decode"
      BY <1>1, <1>3, <1>4, <2>1, <2>2, <3>2 DEF Found, Closed, NbClosed
    <3> QED
      BY <2>1, <3>1, <3>2
  <2> QED
    BY <1>1, <1>5, <2>3, <2>4, <2>5 DEF Book
<1>9. ASSUME NEW t \in Tiles, GetTile(t) PROVE Book'
  <2>1. /\ used \in {"new", "tiles"} /\ wanted' = t /\ part_no' = [u \in Tiles |-> -1]
        /\ pc' = "failed" \/ EnterHeader(state')
    BY <1>9 DEF GetTile, MayGetTile, ResetPartNumbers
  <2>2. \A u \in Tiles : data[u] = <<>>
    BY <1>3, <1>4, <2>1 DEF IInv, ModeInv, Fresh, Collected
  <2>3. \A u \in Tiles : Counted(u)'
    BY <1>3, <2>1, <2>2 DEF Counted
  <2>4. Collected'
    BY <1>1, <1>2, <1>3, <2>1, <2>2, <2>3 DEF Collected
  <2>5. Found'
    BY <1>1, <1>2, <1>3, <1>4, <2>1 DEF Found, EnterHeader
  <2> QED
    BY <1>1, <1>3, <1>5, <2>2, <2>4, <2>5 DEF Book
<1> QED
  BY <1>6, <1>7, <1>8, <1>9 DEF CallNext
-----------------------------------------------------------------------------
(***************************************************************************)
(* Book: the tiles                                                         *)
(***************************************************************************)
\* A tile that is decoded has been collected, and is closed.
LEMMA TileBook ==
  ASSUME IInv, NoPsot0, TileNext
  PROVE  Book'
<1> USE DEF fileVars, planVars, tileVars, indexVars, apiVars
<1>1. UNCHANGED fileVars /\ Tiles' = Tiles /\ Single' = Single
  BY FileKept, SameStream DEF Next
<1>2. /\ wanted \in Tiles \cup {-1} /\ -1 \notin Tiles /\ tile \in Tiles /\ area \in Areas
      /\ Types /\ 0 \in Tiles /\ data \in [Tiles -> Seq(1..N)]
  BY TypesOf, StreamFacts DEF Tiles, IInv
<1>3. /\ pc \in {"found", "decode"}
      /\ UNCHANGED <<checked, part_no, nb_parts, last_part, wanted, area, used, op>>
  BY DEF TileNext, FindTile, NoTile, DecodeFails, DecodeBroken, MarkerFails, FastTile,
         AreaTile, WantedTile, OtherTile, DecodesTile, Fail
<1>4. /\ \A t \in Tiles : InOrder(t) /\ (data[t] # <<>> => InArea(t))
      /\ Collected /\ Found /\ InCall
  BY <1>3 DEF IInv, Book, Usable, InCall
<1>5. \A t \in Tiles : InArea(t)' = InArea(t)
  BY <1>3 DEF InArea
<1>6. ASSUME \A t \in Tiles : data'[t] = data[t] \/ data'[t] = <<>>
      PROVE  \A t \in Tiles : InOrder(t)' /\ (data'[t] # <<>> => InArea(t)')
  BY <1>1, <1>4, <1>5, <1>6, OrderKept
<1>7. ASSUME UNCHANGED data, state # "TPHSOT" => state' # "TPHSOT"
      PROVE  wanted = -1 => \A t \in Tiles :
               InArea(t) => Counted(t)' \/ (data'[t] = <<>> /\ Closed(t)')
  BY <1>3, <1>4, <1>7 DEF Collected, Counted, Closed, NbClosed
<1>8. CASE FindTile
  <2>1. /\ pc = "found" /\ pc' = "decode" /\ UNCHANGED <<state, can_decode, data>>
        /\ (can_decode => tile' = tile)
    BY <1>8 DEF FindTile
  <2>2. Collected'
    BY <1>1, <1>3, <1>4, <1>5, <1>7, <2>1 DEF Collected, InCall, Counted
  <2>3. Found'
    BY <1>1, <1>3, <1>4, <2>1 DEF Found, Closed, NbClosed
  <2> QED
    BY <1>1, <1>6, <2>1, <2>2, <2>3 DEF Book
<1>9. CASE NoTile
  <2>1. /\ pc = "found" /\ UNCHANGED <<state, can_decode, data, tile>> /\ ~ can_decode
        /\ Candidates = {}
        /\ pc' = "idle" \/ pc' = "failed"
        /\ (pc' = "idle" => image # <<>>)
    BY <1>9 DEF NoTile, TileFound, Return
  <2>2. CASE pc' = "failed"
    BY <1>1, <1>6, <2>1, <2>2 DEF Book, Usable
  <2>3. CASE pc' = "idle"
    <3>1. wanted = -1
      BY <1>4, <2>1, <2>3 DEF IInv, ModeInv
    <3>2. Single => data[0] = <<>>
      <4>1. Single => tile = 0
        BY <1>2, SingleArea
      <4>2. data[tile] = <<>>
        <5>1. tile \in Tiles /\ tile >= tile
          BY <1>2 DEF Tiles
        <5> QED
          BY <2>1, <5>1 DEF Candidates
      <4> QED
        BY <4>1, <4>2
    <3>3. Collected'
      BY <1>1, <1>3, <1>4, <1>5, <1>7, <2>1, <2>3, <3>1 DEF Collected, InCall
    <3>4. Found'
      BY <1>1, <1>3, <1>4, <2>1, <2>3, <3>2 DEF Found
    <3> QED
      BY <1>1, <1>6, <2>1, <3>3, <3>4 DEF Book
  <2> QED
    BY <2>1, <2>2, <2>3
<1>10. CASE DecodeFails \/ DecodeBroken \/ MarkerFails
  <2>1. pc' \in {"failed", "broken"} /\ data' = data
    BY <1>10 DEF DecodeFails, DecodeBroken, MarkerFails, Fail
  <2> QED
    BY <1>1, <1>6, <2>1 DEF Book, Usable
<1>11. CASE FastTile \/ AreaTile \/ WantedTile \/ OtherTile
  <2>0. PICK u \in Tiles : u = tile
    BY <1>2
  <2>1. DecodesTile
    BY <1>11 DEF FastTile, AreaTile, WantedTile, OtherTile
  <2>2. /\ pc = "decode" /\ can_decode' = FALSE /\ (state # "TPHSOT" => state' # "TPHSOT")
        /\ (wanted # -1 \/ Closed(tile))
    BY <1>4, <2>1 DEF DecodesTile, MeetsEOC, Found
  <2>3. wanted = -1 => Closed(u)'
    BY <1>3, <2>0, <2>2 DEF Closed, NbClosed
  <2>4. \/ data' = data
        \/ data' = [data EXCEPT ![tile] = <<>>]
    BY <1>11 DEF FastTile, AreaTile, WantedTile, OtherTile, Forget
  <2>5. /\ \A t \in Tiles : t # u => data'[t] = data[t]
        /\ data'[u] = data[u] \/ data'[u] = <<>>
    BY <1>2, <2>0, <2>4
  <2>6. \A t \in Tiles : InOrder(t)' /\ (data'[t] # <<>> => InArea(t)')
    BY <1>6, <2>5
  <2>7. wanted = -1 => \A t \in Tiles :
          InArea(t) => Counted(t)' \/ (data'[t] = <<>> /\ Closed(t)')
    <3> SUFFICES ASSUME wanted = -1, NEW t \in Tiles, InArea(t)
                 PROVE  Counted(t)' \/ (data'[t] = <<>> /\ Closed(t)')
      OBVIOUS
    <3>1. CASE data'[t] = data[t]
      BY <1>3, <1>4, <2>2, <3>1 DEF Collected, Counted, Closed, NbClosed
    <3>2. CASE data'[t] # data[t]
      BY <2>3, <2>5, <3>2
    <3> QED
      BY <3>1, <3>2
  <2>8. CASE FastTile \/ AreaTile
    <3>1. wanted = -1 /\ (pc' = "idle" \/ pc' = "failed" \/ EnterHeader(state'))
      BY <2>8 DEF FastTile, AreaTile, Return, IInv, ModeInv
    <3>2. Collected'
      BY <1>1, <1>3, <1>5, <2>7, <3>1 DEF Collected
    <3>3. Single => tile = 0
      BY <1>2, SingleArea
    <3>4. pc' # "failed" => Found'
      BY <1>1, <1>3, <1>4, <2>0, <2>2, <2>3, <3>1, <3>3 DEF Found, EnterHeader
    <3>5. Usable' => pc' # "failed"
      BY DEF Usable
    <3> QED
      BY <1>1, <2>6, <3>2, <3>4, <3>5 DEF Book
  <2>9. CASE WantedTile
    <3>1. /\ wanted # -1 /\ tile = wanted /\ data' = [data EXCEPT ![tile] = <<>>]
          /\ pc' \in {"idle", "failed"}
      BY <2>9 DEF WantedTile, Return, IInv, ModeInv, Forget
    <3>2. \A t \in Tiles : data'[t] = <<>>
      <4> SUFFICES ASSUME NEW t \in Tiles, t # tile PROVE data[t] = <<>>
        BY <1>2, <3>1
      <4>1. ~ InArea(t)
        BY <1>2, <3>1 DEF IInv, ModeInv, InArea, Tiles
      <4> QED
        BY <1>4, <4>1
    <3>3. Collected'
      BY <1>1, <1>3, <3>1, <3>2 DEF Collected, InCall
    <3>4. Found'
      BY <1>1, <1>3, <1>4, <2>2, <3>1 DEF Found
    <3> QED
      BY <1>1, <2>6, <3>3, <3>4 DEF Book
  <2>10. CASE OtherTile
    <3>1. /\ wanted # -1 /\ tile # wanted /\ EnterHeader(state')
      BY <2>10 DEF OtherTile, IInv, ModeInv
    <3>2. Counted(wanted)'
      <4>1. data'[wanted] = data[wanted] /\ Counted(wanted)
        BY <1>2, <2>0, <1>4, <2>5, <3>1 DEF Collected
      <4> QED
        BY <1>3, <4>1 DEF Counted
    <3>3. Collected'
      BY <1>1, <1>3, <3>1, <3>2 DEF Collected, EnterHeader
    <3>4. Found'
      BY <1>1, <1>3, <1>4, <2>2, <3>1 DEF Found, EnterHeader
    <3> QED
      BY <1>1, <2>6, <3>3, <3>4 DEF Book
  <2> QED
    BY <1>11, <2>8, <2>9, <2>10
<1> QED
  BY <1>8, <1>9, <1>10, <1>11 DEF TileNext
-----------------------------------------------------------------------------
(***************************************************************************)
(* Book: the loop over the tile-parts                                      *)
(***************************************************************************)
\* A tile-part that the decoder accepts is the next one of its tile, if that tile
\* is collected, and a tile that is closed accepts none.
LEMMA SotBook ==
  ASSUME IInv, NoPsot0, UNCHANGED <<fileVars, apiVars>>,
         AtSot, NEW i \in 1..N, i = Here, ~ SotRefused(Part(i)),
         part_no' = [part_no EXCEPT ![Part(i).tile] = Part(i).part],
         data' = IF Skips(Part(i)) THEN data
                 ELSE [data EXCEPT ![Part(i).tile] = Append(@, i)],
         checked => checked' /\ \A t \in Tiles : t # Part(i).tile => nb_parts'[t] = nb_parts[t]
  PROVE  /\ \A t \in Tiles : InOrder(t)' /\ (data'[t] # <<>> => InArea(t)')
         /\ wanted = -1 => \A t \in Tiles :
              InArea(t) => Counted(t)' \/ (data'[t] = <<>> /\ NbClosed(t)')
         /\ wanted # -1 => Counted(wanted)'
<1> DEFINE p == Part(i)
           u == Part(i).tile
<1>1. /\ u \in Tiles /\ p.part \in Nat /\ N \in Nat
      /\ \A t \in Tiles : t \in Nat
  BY HereInside, StreamFacts, TypesOf DEF IInv, Tiles
<1>2. /\ data \in [Tiles -> Seq(1..N)] /\ part_no \in [Tiles -> Nat \cup {-1}]
      /\ nb_parts \in [Tiles -> Nat] /\ wanted \in Tiles \cup {-1}
  BY TypesOf DEF IInv
<1>3. /\ pc = "header" /\ InCall
      /\ \A t \in Tiles : InOrder(t) /\ (data[t] # <<>> => InArea(t))
      /\ Collected /\ Found
  BY DEF AtSot, IInv, Book, Usable, InCall
<1>4. wanted' = wanted /\ area' = area /\ Tiles' = Tiles /\ \A k : Part(k)' = Part(k)
  BY SameStream DEF apiVars
<1>5. \A t \in Tiles : InArea(t)' = InArea(t)
  BY <1>4 DEF InArea
<1>6. \A t \in Tiles : t # u => data'[t] = data[t] /\ part_no'[t] = part_no[t]
  <2>1. CASE Skips(p)
    BY <1>1, <1>2, <2>1
  <2>2. CASE ~ Skips(p)
    <3>1. data' = [data EXCEPT ![u] = Append(@, i)]
      BY <2>2
    <3> QED
      BY <1>1, <1>2, <3>1
  <2> QED
    BY <2>1, <2>2
<1>7. part_no'[u] = p.part
  BY <1>1, <1>2
<1>8. ~ Skips(p) => /\ InArea(u) /\ data'[u] = Append(data[u], i)
                    /\ part_no[u] + 1 = p.part /\ Len(data[u]) = p.part
  <2> SUFFICES ASSUME ~ Skips(p)
               PROVE  /\ InArea(u) /\ data'[u] = Append(data[u], i)
                      /\ part_no[u] + 1 = p.part /\ Len(data[u]) = p.part
    OBVIOUS
  <2>1. wanted = -1 => InArea(u)
    BY DEF Skips
  <2>2. wanted # -1 => wanted = u /\ InArea(u)
    <3>1. wanted # -1 => wanted = u /\ area.from = wanted /\ area.to = wanted + 1
      BY DEF Skips, IInv, ModeInv
    <3> QED
      BY <1>1, <3>1 DEF InArea
  <2>3. part_no[u] + 1 = p.part
    BY <2>2 DEF SotRefused, OutOfOrder
  <2>4. data'[u] = Append(data[u], i)
    BY <1>1, <1>2
  <2>5. Counted(u)
    <3>1. CASE wanted # -1
      BY <1>3, <2>2, <3>1 DEF Collected
    <3>2. CASE wanted = -1
      <4>1. Counted(u) \/ Closed(u)
        BY <1>1, <1>3, <2>1, <3>2 DEF Collected
      <4>2. state = "TPHSOT"
        BY <1>3, <3>2 DEF Found
      <4>3. ~ NbClosed(u)
        BY <1>1, <1>2, <2>3 DEF SotRefused, NbClosed
      <4> QED
        BY <4>1, <4>2, <4>3 DEF Closed
    <3> QED
      BY <3>1, <3>2
  <2> QED
    BY <1>1, <1>2, <2>1, <2>2, <2>3, <2>4, <2>5 DEF Counted
<1>9. ASSUME NEW t \in Tiles PROVE InOrder(t)' /\ (data'[t] # <<>> => InArea(t)')
  <2>1. CASE data'[t] = data[t]
    BY <1>3, <1>5, <2>1, OrderKept
  <2>2. CASE data'[t] # data[t]
    <3>1. ~ Skips(p) /\ t = u
      BY <1>6, <2>2
    <3>2. data[t] \in Seq(1..N) /\ data'[t] = Append(data[t], i) /\ Len(data[t]) = p.part
      BY <1>2, <1>8, <3>1
    <3>3. ASSUME NEW k \in 1..(Len(data[t]) + 1)
          PROVE  Part(data'[t][k]).tile = t /\ Part(data'[t][k]).part = k - 1
      <4>1. CASE k = Len(data[t]) + 1
        BY <3>1, <3>2, <4>1
      <4>2. CASE k # Len(data[t]) + 1
        <5>1. k \in 1..Len(data[t]) /\ data'[t][k] = data[t][k]
          BY <3>2, <4>2
        <5> QED
          BY <1>3, <5>1 DEF InOrder
      <4> QED
        BY <4>1, <4>2
    <3>4. Len(data'[t]) = Len(data[t]) + 1
      BY <3>2
    <3>5. InOrder(t)'
      BY <1>4, <3>3, <3>4 DEF InOrder
    <3> QED
      BY <1>5, <1>8, <3>1, <3>5
  <2> QED
    BY <2>1, <2>2
<1>10. ~ Skips(p) => Len(data'[u]) = part_no'[u] + 1
  <2>1. data[u] \in Seq(1..N)
    BY <1>1, <1>2
  <2> QED
    BY <1>7, <1>8, <2>1
<1>11. ASSUME wanted = -1, NEW t \in Tiles, InArea(t)
       PROVE  Counted(t)' \/ (data'[t] = <<>> /\ NbClosed(t)')
  <2>1. CASE t = u
    <3>1. ~ Skips(p)
      BY <1>11, <2>1 DEF Skips
    <3> QED
      BY <1>10, <2>1, <3>1 DEF Counted
  <2>2. CASE t # u
    <3>1. Counted(t) \/ (data[t] = <<>> /\ Closed(t))
      BY <1>3, <1>11 DEF Collected
    <3>2. Closed(t) => NbClosed(t)
      BY <1>3, <1>11 DEF Closed, Found
    <3>3. NbClosed(t) => NbClosed(t)'
      BY <1>6, <2>2 DEF NbClosed
    <3> QED
      BY <1>6, <2>2, <3>1, <3>2, <3>3 DEF Counted
  <2> QED
    BY <2>1, <2>2
<1>12. ASSUME wanted # -1 PROVE Counted(wanted)'
  <2>1. CASE wanted = u
    <3>1. ~ Skips(p)
      BY <1>12, <2>1 DEF Skips
    <3> QED
      BY <1>4, <1>10, <2>1, <3>1 DEF Counted
  <2>2. CASE wanted # u
    BY <1>2, <1>3, <1>4, <1>6, <1>12, <2>2 DEF Collected, Counted
  <2> QED
    BY <2>1, <2>2
<1> QED
  BY <1>9, <1>11, <1>12

\* The loop takes the tile-parts of a tile one after the other.
LEMMA PartBook ==
  ASSUME IInv, NoPsot0, PartNext
  PROVE  Book'
<1> USE DEF fileVars, planVars, tileVars, indexVars, apiVars
<1>1. UNCHANGED fileVars /\ Tiles' = Tiles /\ Single' = Single
  BY FileKept, SameStream DEF Next
<1>2. /\ wanted \in Tiles \cup {-1} /\ -1 \notin Tiles /\ Types /\ N \in Nat
      /\ stream \in Streams /\ nb_parts \in [Tiles -> Nat]
  BY TypesOf, StreamFacts DEF Tiles, IInv
<1>3. pc = "header"
  <2>1. pc \in {"header", "sod"}
    BY DEF PartNext, HeaderEnds, SotFails, SkipNothing, SkipPart, SkipFails, SodFails, TakeAndJump,
           TakeAndGoOn, TakeLast, TakeAndCorrect, TakeUnwanted, Takes, AtSot
  <2> QED
    BY <2>1 DEF IInv, Book, Usable, Found
<1>4. /\ \A t \in Tiles : InOrder(t) /\ (data[t] # <<>> => InArea(t))
      /\ Collected /\ Found /\ InCall /\ ~ can_decode
  BY <1>3 DEF IInv, Book, Usable, InCall, Found
<1>5. UNCHANGED apiVars /\ \A t \in Tiles : InArea(t)' = InArea(t)
  BY DEF PartNext, HeaderEnds, SotFails, SkipNothing, SkipPart, SkipFails, SodFails, TakeAndJump,
         TakeAndGoOn, TakeLast, TakeAndCorrect, TakeUnwanted, Fail, InArea
<1>6. CASE HeaderEnds
  <2>1. state' = "NEOC" /\ pc' = "found" /\ UNCHANGED <<data, part_no, can_decode, last_part>>
    BY <1>6 DEF HeaderEnds
  <2>2. \A t \in Tiles : InOrder(t)'
    BY <1>1, <1>4, <2>1, OrderKept
  <2>3. Collected'
    BY <1>1, <1>4, <1>5, <2>1 DEF Collected, Counted, Closed
  <2>4. Found'
    BY <1>1, <1>4, <2>1 DEF Found
  <2> QED
    BY <1>1, <1>4, <1>5, <2>1, <2>2, <2>3, <2>4 DEF Book
<1>7. CASE SotFails \/ SkipFails \/ SodFails
  <2>1. pc' = "failed" /\ data' = data
    BY <1>7 DEF SotFails, SkipFails, SodFails, Fail
  <2>2. \A t \in Tiles : InOrder(t)'
    BY <1>1, <1>4, <2>1, OrderKept
  <2> QED
    BY <1>1, <1>4, <1>5, <2>1, <2>2 DEF Book, Usable
<1>8. ASSUME ReadSot(Here), AtSot
      PROVE  ~ last_part' /\ Here \in 1..N /\ Part(Here).tile \in Tiles
             /\ part_no' = [part_no EXCEPT ![Part(Here).tile] = Part(Here).part]
             /\ NbParts(Part(Here)) \in Nat
  <2>1. Here \in 1..N /\ Part(Here).tile \in Tiles
    BY <1>8, HereInside DEF IInv
  <2>2. ~ Part(Here).psot0 /\ ~ last_part
    BY <1>4, <2>1 DEF NoPsot0, Found
  <2> QED
    BY <1>8, <2>1, <2>2, SotStep DEF IInv
<1>9. CASE SkipNothing
  BY <1>8, <1>9 DEF SkipNothing
<1>10. CASE SkipPart
  <2> DEFINE i == Here
             u == Part(Here).tile
  <2>1. /\ AtSot /\ ReadSot(i) /\ ~ SotRefused(Part(i)) /\ Skips(Part(i))
        /\ data' = data /\ checked' = checked /\ can_decode' = can_decode
        /\ nb_parts' = [nb_parts EXCEPT ![u] = NbParts(Part(i))]
        /\ NextMarker(i, u, "TPHSOT")
    BY <1>10 DEF SkipPart
  <2>2. ~ last_part' /\ i \in 1..N /\ u \in Tiles
        /\ part_no' = [part_no EXCEPT ![u] = Part(i).part]
    BY <1>8, <2>1
  <2>3. /\ pc' \in {"header", "found", "failed"}
        /\ (pc' = "header" => state' = "TPHSOT") /\ (pc' = "found" => state' = "EOC")
    BY <1>1, <1>2, <2>1, <2>2, MarkerStep
  <2>4. /\ \A t \in Tiles : InOrder(t)' /\ (data'[t] # <<>> => InArea(t)')
        /\ wanted = -1 => \A t \in Tiles :
             InArea(t) => Counted(t)' \/ (data'[t] = <<>> /\ NbClosed(t)')
        /\ wanted # -1 => Counted(wanted)'
    <3>1. \A t \in Tiles : t # u => nb_parts'[t] = nb_parts[t]
      BY <1>2, <2>1
    <3> HIDE DEF i
    <3> QED
      BY <1>1, <1>5, <2>1, <2>2, <3>1, SotBook DEF i
  <2>5. Collected'
    BY <1>1, <1>5, <2>3, <2>4 DEF Collected, Closed
  <2>6. Found'
    BY <1>4, <1>5, <2>1, <2>2, <2>3 DEF Found
  <2> QED
    BY <1>1, <2>4, <2>5, <2>6 DEF Book
<1>11. ASSUME NEW i \in 1..N, TakeAndJump(i) \/ TakeAndGoOn(i) \/ TakeLast(i) \/ TakeAndCorrect(i)
       PROVE  Book'
  <2> DEFINE u == Part(i).tile
             nb == [nb_parts EXCEPT ![u] = NbParts(Part(i))]
  <2>1. Takes(i)
    BY <1>11 DEF TakeAndJump, TakeAndGoOn, TakeLast, TakeAndCorrect
  <2>2. /\ AtSot /\ i = Here /\ ReadSot(i) /\ ~ SotRefused(Part(i)) /\ ~ Skips(Part(i))
        /\ Collect(i)
    BY <2>1 DEF Takes
  <2>3. ~ last_part' /\ u \in Tiles /\ NbParts(Part(i)) \in Nat
        /\ part_no' = [part_no EXCEPT ![u] = Part(i).part]
    BY <1>8, <2>2
  <2>4. data' = [data EXCEPT ![u] = Append(@, i)]
    <3>1. data' = [data EXCEPT ![u] = @ \o <<i>>]
      BY <2>2, <2>3 DEF Collect
    <3>2. data[u] \in Seq(1..N)
      BY <2>3, TypesOf DEF IInv
    <3>3. data[u] \o <<i>> = Append(data[u], i)
      BY <1>2, <3>2
    <3> QED
      BY <3>1, <3>3
  <2>5. checked => checked' /\ \A t \in Tiles : t # u => nb_parts'[t] = nb_parts[t]
    <3>1. CASE TakeAndCorrect(i)
      BY <3>1 DEF TakeAndCorrect, NeedsCorrection
    <3>2. CASE TakeAndJump(i) \/ TakeAndGoOn(i) \/ TakeLast(i)
      <4>1. nb_parts' = nb /\ (checked => checked')
        BY <3>2 DEF TakeAndJump, TakeAndGoOn, TakeLast
      <4> QED
        BY <1>2, <4>1
    <3> QED
      BY <1>11, <3>1, <3>2
  <2>6. /\ \A t \in Tiles : InOrder(t)' /\ (data'[t] # <<>> => InArea(t)')
        /\ wanted = -1 => \A t \in Tiles :
             InArea(t) => Counted(t)' \/ (data'[t] = <<>> /\ NbClosed(t)')
        /\ wanted # -1 => Counted(wanted)'
    BY <1>1, <1>5, <2>2, <2>3, <2>4, <2>5, SotBook
  <2>7. AfterSod(i) = i /\ SodState(i) \in {"TPHSOT", "NEOC"}
    BY <2>3 DEF AfterSod, SodState
  <2>8. Usable' => /\ pc' \in {"header", "found"}
                   /\ wanted = -1 /\ pc' = "header" => state' = "TPHSOT"
                   /\ can_decode' => pc' = "found" /\ NbClosed(tile)'
                   /\ pc' = "found" /\ ~ can_decode' => state' # "TPHSOT"
    <3>1. CASE TakeAndJump(i)
      <4>1. wanted # -1 /\ pc' = "header" /\ can_decode' = can_decode
        BY <1>2, <2>3, <3>1 DEF TakeAndJump, JumpsToNext
      <4> QED
        BY <1>4, <4>1
    <3>2. CASE TakeLast(i)
      <4>1. /\ pc' = "found" /\ can_decode' = TRUE /\ checked' = TRUE /\ tile' = u
            /\ nb_parts' = nb /\ Completes(Part(i))
        BY <3>2 DEF TakeLast
      <4>2. nb_parts'[u] = Part(i).part + 1 /\ part_no'[u] = Part(i).part /\ Part(i).part \in Nat
        BY <1>2, <2>2, <2>3, <4>1, HereInside, TypesOf DEF Completes, IInv
      <4>3. NbClosed(tile)'
        BY <4>1, <4>2 DEF NbClosed
      <4> QED
        BY <4>1, <4>3
    <3>3. CASE TakeAndGoOn(i) \/ TakeAndCorrect(i)
      <4>1. NextMarker(AfterSod(i), u, SodState(i)) /\ can_decode' = can_decode
        BY <3>3 DEF TakeAndGoOn, TakeAndCorrect
      <4>2. /\ pc' \in {"header", "found", "failed"}
            /\ pc' = "header" => state' = SodState(i) /\ i < N
            /\ pc' = "found" => state' = "EOC"
        BY <1>1, <1>2, <2>3, <2>7, <4>1, MarkerStep
      <4>3. i < N => SodState(i) = "TPHSOT"
        BY <1>2 DEF SodState, IsCut
      <4> QED
        BY <1>4, <4>1, <4>2, <4>3 DEF Usable
    <3> QED
      BY <1>11, <3>1, <3>2, <3>3
  <2>9. Usable' => Collected'
    BY <1>1, <1>5, <2>6, <2>8 DEF Collected, Closed
  <2>10. Usable' => Found'
    BY <1>5, <2>3, <2>8 DEF Found
  <2> QED
    BY <1>1, <2>6, <2>9, <2>10 DEF Book
<1>12. CASE TakeUnwanted
  BY <1>3, <1>12 DEF TakeUnwanted
<1> QED
  BY <1>6, <1>7, <1>9, <1>10, <1>11, <1>12 DEF PartNext
-----------------------------------------------------------------------------
(***************************************************************************)
(* The invariant                                                           *)
(***************************************************************************)
\* Every step does, or leaves nothing to rely on.
LEMMA BookNext ==
  ASSUME IInv, [Next]_vars
  PROVE  Book'
<1> SUFFICES ASSUME NoPsot0 PROVE Book'
  <2>1. NoPsot0' = NoPsot0
    BY FileKept, SameStream
  <2> QED
    BY <2>1 DEF Book
<1>1. CASE Over \/ UNCHANGED vars
  <2>1. UNCHANGED vars
    BY <1>1 DEF Over
  <2>2. UNCHANGED <<stream, mode, exact, state, tile, can_decode, last_part, checked, data,
                    part_no, nb_parts, wanted, area, pc>>
    BY <2>1 DEF vars, fileVars, planVars, tileVars, indexVars, apiVars
  <2>3. Book
    BY DEF IInv
  <2> QED
    BY <2>2, <2>3 DEF Book, Usable, Collected, Found, InOrder, InArea, Counted, Closed, NbClosed,
       InCall, NoPsot0, Part, N, Tiles, Single
<1> QED
  BY <1>1, CallBook, PartBook, TileBook DEF Next

\* Every step keeps IInv.
LEMMA InvNext ==
  ASSUME IInv, [Next]_vars
  PROVE  IInv'
BY TypesNext, ModeNext, BookNext DEF IInv

\* IInv holds in every state that is reached.
THEOREM Invariant == Spec => []IInv
<1>1. IInv /\ [Next]_vars => IInv'
  BY InvNext
<1> QED
  BY InitInv, <1>1, PTL DEF Spec

\* Whatever the codestream says, and whatever the application calls in which order,
\* a tile is put together from its own tile-parts, in their order and with none
\* left out between them, and no tile is begun that is not asked for, if every Psot
\* is given; the positions the decoder seeks to and the arrays it indexes are in
\* range (opj_j2k_read_sot, opj_j2k_read_sod, opj_j2k_decode_tiles, opj_j2k_get_tile).
THEOREM PartsCorrect == Spec => []PartsInOrder
<1>1. IInv => PartsInOrder
  <2> SUFFICES ASSUME IInv PROVE PartsInOrder
    OBVIOUS
  <2>1. TypeOK /\ data \in [Tiles -> Seq(1..N)]
    BY TypesOf DEF IInv, Types
  <2>2. ASSUME NoPsot0, NEW t \in Tiles
        PROVE  /\ data[t] # <<>> => InArea(t)
               /\ \A k \in DOMAIN data[t] :
                    Part(data[t][k]).tile = t /\ Part(data[t][k]).part = k - 1
    <3>1. DOMAIN data[t] = 1..Len(data[t])
      BY <2>1
    <3> QED
      BY <2>2, <3>1 DEF IInv, Book, InOrder
  <2> QED
    BY <2>1, <2>2 DEF PartsInOrder
<1> QED
  BY <1>1, Invariant, PTL

-----------------------------------------------------------------------------
(***************************************************************************)
(* The index                                                               *)
(***************************************************************************)
\* A tile has no more tile-parts than the codestream.
LEMMA NumOfBound ==
  ASSUME stream \in Streams, NEW t
  PROVE  /\ PartsOf(t) \in Seq({i \in 1..N : Part(i).tile = t})
         /\ NumOf(t) \in Nat /\ NumOf(t) <= N
         /\ \A j, k \in 1..NumOf(t) : j < k => PartsOf(t)[j] < PartsOf(t)[k]
         /\ \A i \in 1..N : Part(i).tile = t => \E k \in 1..NumOf(t) : PartsOf(t)[k] = i
<1> DEFINE S == {i \in 1..N : Part(i).tile = t}
<1>1. N \in Nat
  BY StreamFacts
<1>2. S \in SUBSET (1..N) /\ S \in SUBSET Nat
  BY <1>1
<1>3. 1 \in Int /\ N \in Int
  BY <1>1
<1>4. IsFiniteSet(1..N) /\ Cardinality(1..N) = IF 1 > N THEN 0 ELSE N - 1 + 1
  BY <1>3, FS_Interval, Zenon
<1>5. Cardinality(1..N) = N
  BY <1>1, <1>4
<1>6. IsFiniteSet(S) /\ Cardinality(S) <= N
  BY <1>2, <1>4, <1>5, FS_Subset
<1>7. /\ Ascending(S) \in Seq(S) /\ Len(Ascending(S)) = Cardinality(S) /\ Cardinality(S) \in Nat
      /\ \A j, k \in 1..Cardinality(S) : j < k => Ascending(S)[j] < Ascending(S)[k]
      /\ \A x \in S : \E k \in 1..Cardinality(S) : Ascending(S)[k] = x
  BY <1>2, <1>6, AscendingSeq, Zenon
<1>8. PartsOf(t) = Ascending(S) /\ NumOf(t) = Cardinality(S)
  BY <1>7 DEF PartsOf, NumOf
<1>9. \A i \in 1..N : Part(i).tile = t => \E k \in 1..Cardinality(S) : Ascending(S)[k] = i
  BY <1>7
<1> QED
  BY <1>6, <1>7, <1>8, <1>9, Zenon

\* What conformant TLM markers say are the tile-parts of a tile in their order.
LEMMA InitIndexRight == Init => IndexRight
<1> SUFFICES ASSUME Init, Regular, NEW t \in Tiles
             PROVE  /\ nb_tps[t] <= N + 1
                    /\ start[t] # NoIndex => \A p \in PartNumbers(stream) :
                         start[t][p] # Unset =>
                           Part(start[t][p]).tile = t /\ Part(start[t][p]).part = p
  BY DEF IndexRight
<1>1. stream \in Streams /\ StreamOK(stream)
  BY DecoderAssumption DEF Init
<1>2. N \in Nat /\ PartNumbers(stream) = 0..N
  BY <1>1, StreamFacts DEF PartNumbers, N
<1>3. /\ nb_tps[t] = IF tlm_ok THEN Len(TlmParts(stream, t)) ELSE 0
      /\ start[t] = IF tlm_ok THEN TlmStart(stream, t) ELSE NoIndex
      /\ tlm_ok = TlmValid(stream)
  BY DEF Init
<1>4. CASE ~ tlm_ok
  BY <1>2, <1>3, <1>4
<1>5. CASE tlm_ok
  <2>1. stream.tlm # <<>>
    BY <1>3, <1>5 DEF TlmValid
  <2>2. /\ stream.tlm \in [1..N -> 0..(stream.tiles - 1)]
        /\ \A i \in 1..N : stream.tlm[i] = Part(i).tile
        /\ Ordered
    BY <1>1, <2>1, Zenon DEF StreamOK, N, Regular, Conformant, OffByOne
  <2>3. {i \in DOMAIN stream.tlm : stream.tlm[i] = t} = {i \in 1..N : Part(i).tile = t}
    BY <2>2
  <2>4. TlmParts(stream, t) = PartsOf(t)
    BY <2>3 DEF TlmParts, PartsOf
  <2>5. PICK q : q = PartsOf(t)
    OBVIOUS
  <2>6. /\ q \in Seq({i \in 1..N : Part(i).tile = t}) /\ Len(q) \in Nat /\ Len(q) <= N
    BY <1>1, <2>5, NumOfBound DEF NumOf
  <2>7. \A k \in 1..Len(q) : q[k] \in {i \in 1..N : Part(i).tile = t}
    <3> DEFINE S == {i \in 1..N : Part(i).tile = t}
    <3> HIDE DEF S
    <3>1. q \in Seq(S)
      BY <2>6 DEF S
    <3>2. \A k \in 1..Len(q) : q[k] \in S
      BY <3>1, ElementOfSeq
    <3> QED
      BY <3>2 DEF S
  <2>8. \A k \in 1..Len(q) : Part(q[k]).part = k - 1
    <3>1. \A k \in DOMAIN q : Part(q[k]).part = k - 1
      BY <2>2, <2>5 DEF Ordered
    <3>2. DOMAIN q = 1..Len(q)
      BY <2>6
    <3> QED
      BY <3>1, <3>2
  <2>9. start[t] = [p \in 0..N |-> IF p < Len(q) THEN q[p + 1] ELSE 0]
    BY <1>2, <1>3, <1>5, <2>4, <2>5 DEF TlmStart, Unset
  <2>10. ASSUME NEW p \in 0..N, start[t][p] # 0
         PROVE  Part(start[t][p]).tile = t /\ Part(start[t][p]).part = p
    <3>1. p < Len(q) /\ start[t][p] = q[p + 1]
      BY <2>9, <2>10
    <3>2. p + 1 \in 1..Len(q) /\ (p + 1) - 1 = p
      BY <1>2, <2>6, <3>1
    <3> QED
      BY <2>7, <2>8, <3>1, <3>2
  <2>11. nb_tps[t] <= N + 1
    BY <1>2, <1>3, <1>5, <2>4, <2>5, <2>6
  <2> QED
    BY <1>2, <2>10, <2>11 DEF Unset
<1> QED
  BY <1>4, <1>5

\* A SOT stores the tile-part it is in, in the place of that part of its tile.
LEMMA StoreRight ==
  ASSUME Types, IndexRight, Regular, UNCHANGED fileVars, NEW i \in 1..N, Index(i)
  PROVE  IndexRight'
<1> DEFINE p == Part(i)
           u == Part(i).tile
           known == IF start[u] = NoIndex THEN [q \in PartNumbers(stream) |-> Unset]
                                          ELSE start[u]
           new == IF p.part < nb_tps'[u] THEN [known EXCEPT ![p.part] = i] ELSE known
           Right(f, t) == \A q \in PartNumbers(stream) :
                            f[q] # Unset => Part(f[q]).tile = t /\ Part(f[q]).part = q
<1>1. /\ stream \in Streams /\ nb_tps \in [Tiles -> Nat] /\ corr \in {0, 1}
      /\ start \in [Tiles -> {NoIndex} \cup [PartNumbers(stream) -> 0..N]]
  BY TypesOf
<1>2. /\ N \in Nat \ {0} /\ u \in Tiles /\ p.part \in Nat /\ p.num \in Nat
      /\ PartNumbers(stream) = 0..N
  BY <1>1, StreamFacts DEF PartNumbers, N
<1>3. /\ nb_tps' = [nb_tps EXCEPT ![u] = IF tlm_ok' \/ p.num = 0 THEN @ ELSE Declared(p)]
      /\ start' = [start EXCEPT ![u] = new]
  BY DEF Index
<1>4. Declared(p) \in Nat /\ Declared(p) <= N + 1
  <2>1. p.num \in {0, NumOf(u), NumOf(u) - 1}
    BY DEF Regular, Conformant, OffByOne
  <2>2. NumOf(u) \in Nat /\ NumOf(u) <= N
    BY <1>1, NumOfBound
  <2> QED
    BY <1>1, <1>2, <2>1, <2>2 DEF Declared
<1>5. \A t \in Tiles : nb_tps'[t] <= N + 1
  <2> SUFFICES ASSUME NEW t \in Tiles PROVE nb_tps'[t] <= N + 1
    OBVIOUS
  <2>1. nb_tps[t] <= N + 1
    BY DEF IndexRight
  <2>2. nb_tps'[t] = nb_tps[t] \/ nb_tps'[t] = Declared(p)
    BY <1>1, <1>2, <1>3
  <2> QED
    BY <1>4, <2>1, <2>2
<1>6. known \in [0..N -> 0..N] /\ Right(known, u)
  <2>1. CASE start[u] = NoIndex
    BY <1>2, <2>1 DEF Unset
  <2>2. CASE start[u] # NoIndex
    <3>1. start[u] \in [PartNumbers(stream) -> 0..N]
      BY <1>2, <2>2, IndexAt
    <3>2. Right(start[u], u)
      BY <1>2, <2>2 DEF IndexRight
    <3> QED
      BY <1>2, <2>2, <3>1, <3>2
  <2> QED
    BY <2>1, <2>2
<1>7. Right(new, u)
  <2> HIDE DEF known
  <2>1. ASSUME NEW q \in 0..N
        PROVE  [known EXCEPT ![p.part] = i][q] = IF q = p.part THEN i ELSE known[q]
    BY <1>6
  <2>2. Right([known EXCEPT ![p.part] = i], u)
    BY <1>2, <1>6, <2>1
  <2> QED
    BY <1>6, <2>2
<1>8. \A t \in Tiles : start'[t] = IF t = u THEN new ELSE start[t]
  <2> HIDE DEF new
  <2> QED
    BY <1>1, <1>2, <1>3
<1>9. \A t \in Tiles : start'[t] # NoIndex => Right(start'[t], t)
  <2> SUFFICES ASSUME NEW t \in Tiles, start'[t] # NoIndex PROVE Right(start'[t], t)
    OBVIOUS
  <2>1. CASE t = u
    <3>1. start'[t] = new
      BY <1>8, <2>1
    <3> HIDE DEF new
    <3> QED
      BY <1>7, <2>1, <3>1
  <2>2. CASE t # u
    <3>1. start'[t] = start[t]
      BY <1>8, <2>2
    <3> QED
      BY <3>1 DEF IndexRight
  <2> QED
    BY <2>1, <2>2
<1>10. stream' = stream /\ N' = N /\ Tiles' = Tiles /\ \A k : Part(k)' = Part(k)
  BY SameStream DEF fileVars
<1> QED
  BY <1>5, <1>9, <1>10 DEF IndexRight

\* No step makes the index wrong.
LEMMA IndexRightNext ==
  ASSUME IInv, IndexRight, [Next]_vars
  PROVE  IndexRight'
<1> USE DEF fileVars, planVars, tileVars, indexVars, apiVars
<1> SUFFICES ASSUME Regular PROVE IndexRight'
  <2>1. Regular' = Regular
    BY FileKept, SameStream DEF Regular
  <2> QED
    BY <2>1 DEF IndexRight
<1>1. UNCHANGED fileVars
  BY FileKept
<1>2. CASE UNCHANGED indexVars
  <2>1. stream' = stream /\ N' = N /\ Tiles' = Tiles /\ \A k : Part(k)' = Part(k)
    BY <1>1, SameStream
  <2> QED
    BY <1>2, <2>1 DEF IndexRight
<1>3. CASE ReadSot(Here) /\ AtSot
  <2>1. Index(Here) /\ Here \in 1..N
    BY <1>3, HereInside DEF ReadSot, IInv
  <2> QED
    BY <1>1, <2>1, StoreRight DEF IInv
<1>4. UNCHANGED indexVars \/ (ReadSot(Here) /\ AtSot)
  <2>1. CASE CallNext
    BY <2>1 DEF CallNext, SetArea, SetAreaFails, DecodeFast, DecodeKept, DecodeArea, GetTile,
           BeginDecode
  <2>2. CASE PartNext
    <3>1. CASE \E i \in 1..N :
                 TakeAndJump(i) \/ TakeAndGoOn(i) \/ TakeLast(i) \/ TakeAndCorrect(i)
      BY <3>1 DEF TakeAndJump, TakeAndGoOn, TakeLast, TakeAndCorrect, Takes
    <3>2. CASE HeaderEnds \/ SotFails \/ SkipNothing \/ SkipPart \/ SkipFails \/ SodFails
               \/ TakeUnwanted
      BY <3>2 DEF HeaderEnds, SotFails, SkipNothing, SkipPart, SkipFails, SodFails,
             TakeUnwanted, Fail
    <3> QED
      BY <2>2, <3>1, <3>2 DEF PartNext
  <2>3. CASE TileNext
    BY <2>3 DEF TileNext, FindTile, NoTile, DecodeFails, DecodeBroken, MarkerFails, FastTile,
           AreaTile, WantedTile, OtherTile, DecodesTile, Fail
  <2>4. CASE Over \/ UNCHANGED vars
    BY <2>4 DEF Over, vars
  <2> QED
    BY <2>1, <2>2, <2>3, <2>4 DEF Next
<1> QED
  BY <1>2, <1>3, <1>4

\* In a codestream that conforms, every position the index gives is that of the
\* tile-part it is asked for, wherever it comes from, the TLM markers or the SOTs
\* that have been read, and however they are mixed: no seek lands elsewhere
\* (opj_j2k_build_tp_index_from_tlm, opj_j2k_read_sot, opj_j2k_get_tile).
THEOREM IndexCorrect == Spec => []IndexSound
<1>1. IInv /\ IndexRight /\ [Next]_vars => IndexRight'
  BY IndexRightNext
<1>2. IInv /\ IndexRight => IndexSound
  <2> SUFFICES ASSUME IInv, IndexRight, Conformant, NEW t \in Tiles, start[t] # NoIndex,
                      NEW p \in 0..(nb_tps[t] - 1), start[t][p] # Unset
               PROVE  Part(start[t][p]).tile = t /\ Part(start[t][p]).part = p
    BY DEF IndexSound
  <2>1. nb_tps[t] \in Nat /\ nb_tps[t] <= N + 1 /\ N \in Nat /\ PartNumbers(stream) = 0..N
    BY TypesOf, StreamFacts DEF IInv, IndexRight, Regular, PartNumbers, N
  <2>2. p \in PartNumbers(stream)
    BY <2>1
  <2> QED
    BY <2>2 DEF IndexRight, Regular
<1> QED
  BY Invariant, InitIndexRight, <1>1, <1>2, PTL DEF Spec

-----------------------------------------------------------------------------
(***************************************************************************)
(* The order of the tile-parts                                             *)
(***************************************************************************)
\* Where the tile-parts of a tile are in order, their numbers are their places.
LEMMA OrderFacts ==
  ASSUME stream \in Streams, Ordered, NEW t \in Tiles
  PROVE  /\ NumOf(t) \in Nat \ {0}
         /\ \A k \in 1..NumOf(t) : /\ PartsOf(t)[k] \in 1..N /\ Part(PartsOf(t)[k]).tile = t
                                   /\ Part(PartsOf(t)[k]).part = k - 1
         /\ \A i \in 1..N : Part(i).tile = t =>
              /\ Part(i).part \in 0..(NumOf(t) - 1)
              /\ PartsOf(t)[Part(i).part + 1] = i
<1> DEFINE S == {i \in 1..N : Part(i).tile = t}
<1>1. PICK q : q = PartsOf(t)
  OBVIOUS
<1>2. /\ q \in Seq(S) /\ Len(q) \in Nat /\ Len(q) = NumOf(t)
      /\ \A i \in 1..N : Part(i).tile = t => \E k \in 1..Len(q) : q[k] = i
  BY <1>1, NumOfBound DEF NumOf
<1>3. Len(q) > 0 /\ \A k \in DOMAIN q : Part(q[k]).part = k - 1
  BY <1>1 DEF Ordered
<1>4. DOMAIN q = 1..Len(q)
  BY <1>2
<1>5. \A k \in 1..Len(q) : q[k] \in S
  <2> HIDE DEF S
  <2> QED
    BY <1>2, ElementOfSeq
<1>6. ASSUME NEW i \in 1..N, Part(i).tile = t
      PROVE  Part(i).part \in 0..(Len(q) - 1) /\ q[Part(i).part + 1] = i
  <2>1. PICK k \in 1..Len(q) : q[k] = i
    BY <1>2, <1>6
  <2>2. Part(i).part = k - 1
    BY <1>3, <1>4, <2>1
  <2>3. k - 1 \in 0..(Len(q) - 1) /\ (k - 1) + 1 = k
    BY <1>2
  <2> QED
    BY <2>1, <2>2, <2>3
<1>7. NumOf(t) \in Nat \ {0}
  BY <1>2, <1>3
<1> QED
  BY <1>1, <1>2, <1>3, <1>4, <1>5, <1>6, <1>7

\* A later tile-part of a tile has the higher number.
LEMMA OrderOf ==
  ASSUME stream \in Streams, Ordered, NEW i \in 1..N, NEW j \in 1..N,
         Part(i).tile = Part(j).tile
  PROVE  /\ Part(i).part < Part(j).part => i < j
         /\ i < j => Part(i).part < Part(j).part
         /\ Part(i).part = Part(j).part => i = j
<1> DEFINE t == Part(i).tile
<1>1. t \in Tiles /\ N \in Nat
  BY StreamFacts
<1>2. PICK q : q = PartsOf(t)
  OBVIOUS
<1>3. PICK a : a = Part(i).part
  OBVIOUS
<1>4. PICK b : b = Part(j).part
  OBVIOUS
<1>5. /\ NumOf(t) \in Nat /\ a \in 0..(NumOf(t) - 1) /\ b \in 0..(NumOf(t) - 1)
      /\ q[a + 1] = i /\ q[b + 1] = j
  BY <1>1, <1>2, <1>3, <1>4, OrderFacts
<1>6. \A k, l \in 1..NumOf(t) : k < l => q[k] < q[l]
  BY <1>2, NumOfBound
<1>7. a + 1 \in 1..NumOf(t) /\ b + 1 \in 1..NumOf(t) /\ a \in Int /\ b \in Int
  BY <1>5
<1>8. (a < b => i < j) /\ (b < a => j < i) /\ (a = b => i = j)
  <2>1. (a < b => a + 1 < b + 1) /\ (b < a => b + 1 < a + 1)
    BY <1>7
  <2> QED
    BY <1>5, <1>6, <1>7, <2>1
<1>9. i < j => a < b
  BY <1>7, <1>8
<1> QED
  BY <1>3, <1>4, <1>8, <1>9

\* A tile that has as many tile-parts as belong to it, in order, has them all.
LEMMA WholeTile ==
  ASSUME Types, Ordered, NEW t \in Tiles, InOrder(t), Whole(t)
  PROVE  data[t] = PartsOf(t) /\ data[t] # <<>>
<1>1. stream \in Streams /\ data[t] \in Seq(1..N)
  BY TypesOf
<1>2. PICK d : d = data[t]
  OBVIOUS
<1>3. PICK q : q = PartsOf(t)
  OBVIOUS
<1> DEFINE S == {i \in 1..N : Part(i).tile = t}
<1>4. d \in Seq(1..N) /\ q \in Seq(S) /\ Len(d) = Len(q) /\ Len(d) \in Nat \ {0}
  BY <1>1, <1>2, <1>3, OrderFacts, NumOfBound DEF Whole, NumOf
<1>5. ASSUME NEW k \in 1..Len(d) PROVE d[k] = q[k]
  <2>1. d[k] \in 1..N /\ Part(d[k]).tile = t /\ Part(d[k]).part = k - 1
    <3>1. d[k] \in 1..N
      BY <1>4, ElementOfSeq
    <3>2. Part(data[t][k]).tile = t /\ Part(data[t][k]).part = k - 1
      BY <1>2 DEF InOrder
    <3> QED
      BY <1>2, <3>1, <3>2
  <2>2. PartsOf(t)[(k - 1) + 1] = d[k]
    BY <1>1, <2>1, OrderFacts
  <2>3. (k - 1) + 1 = k
    BY <1>4
  <2> QED
    BY <1>3, <2>2, <2>3
<1>6. d = q
  <2>1. q \in Seq(1..N)
    <3>1. S \subseteq 1..N
      OBVIOUS
    <3> HIDE DEF S
    <3> QED
      BY <1>4, <3>1, SeqWiden
  <2> QED
    BY <1>4, <1>5, <2>1, SeqEqual
<1>7. d # <<>>
  BY <1>4
<1> QED
  BY <1>2, <1>3, <1>6, <1>7

\* Of a tile in order there is a tile-part for every number.
LEMMA PartThere ==
  ASSUME stream \in Streams, Ordered, NEW t \in Tiles, NEW k \in 0..(NumOf(t) - 1)
  PROVE  \E i \in 1..N : Part(i).tile = t /\ Part(i).part = k
<1>1. NumOf(t) \in Nat
  BY OrderFacts
<1>2. k + 1 \in 1..NumOf(t) /\ (k + 1) - 1 = k
  BY <1>1
<1> QED
  BY <1>2, OrderFacts

\* A tile of which no tile-part is left has them all.
LEMMA NoneLeft ==
  ASSUME stream \in Streams, Ordered, NEW t \in Tiles, NEW d \in Seq(1..N), NEW m \in Int,
         Len(d) = m + 1,
         \A k \in 1..Len(d) : Part(d[k]).tile = t /\ Part(d[k]).part = k - 1,
         \A i \in 1..N : Part(i).tile = t => Part(i).part <= m
  PROVE  Len(d) = NumOf(t)
<1>1. NumOf(t) \in Nat \ {0} /\ Len(d) \in Nat
  BY OrderFacts
<1>2. NumOf(t) - 1 <= m
  <2>1. NumOf(t) - 1 \in 0..(NumOf(t) - 1)
    BY <1>1
  <2>2. PICK i \in 1..N : Part(i).tile = t /\ Part(i).part = NumOf(t) - 1
    BY <2>1, PartThere
  <2> QED
    BY <2>2
<1>3. m <= NumOf(t) - 1
  <2>1. CASE Len(d) = 0
    <3>1. m = -1 /\ NumOf(t) - 1 >= 0
      BY <1>1, <2>1
    <3> QED
      BY <1>1, <3>1
  <2>2. CASE Len(d) # 0
    <3>1. Len(d) \in 1..Len(d)
      BY <1>1, <2>2
    <3>2. d[Len(d)] \in 1..N
      BY <3>1, ElementOfSeq
    <3>3. Part(d[Len(d)]).tile = t /\ Part(d[Len(d)]).part = Len(d) - 1
      BY <3>1
    <3>4. Len(d) - 1 \in 0..(NumOf(t) - 1)
      BY <3>2, <3>3, OrderFacts
    <3> QED
      BY <1>1, <3>4
  <2> QED
    BY <2>1, <2>2
<1> QED
  BY <1>1, <1>2, <1>3

\* What random access asks of the codestream.
LEMMA AccessFacts ==
  ASSUME RandomAccess, stream \in Streams
  PROVE  /\ Regular /\ NoPsot0 /\ Ordered
         /\ \A i \in 1..N : Part(i).part = 0 => Part(i).num > 0
         /\ stream.tlm # <<>> => Conformant
         /\ Conformant => \A i \in 1..N : Part(i).num \in {0, NumOf(Part(i).tile)}
         /\ OffByOne => /\ mode # "strict"
                        /\ \A i \in 1..N : /\ Part(i).num = NumOf(Part(i).tile) - 1
                                           /\ NumOf(Part(i).tile) > 2
         /\ Conformant \/ OffByOne
<1>1. \A i \in 1..N : Part(i).tile \in Tiles /\ Part(i).num \in Nat
  BY StreamFacts
<1>2. CASE Conformant /\ NoPsot0 /\ NumKnown /\ ~ OffByOne
  BY <1>1, <1>2 DEF Regular, Conformant, NumKnown
<1>3. CASE OffByOne
  <2>1. \A i \in 1..N : NumOf(Part(i).tile) > 2 /\ Part(i).num = NumOf(Part(i).tile) - 1
    BY <1>1, <1>3 DEF OffByOne
  <2>2. \A i \in 1..N : NumOf(Part(i).tile) \in Nat
    BY NumOfBound
  <2>3. \A i \in 1..N : Part(i).num > 0
    BY <2>1, <2>2
  <2>4. Conformant => \A i \in 1..N : Part(i).num \in {0, NumOf(Part(i).tile)}
    BY DEF Conformant
  <2> QED
    BY <1>3, <2>1, <2>3, <2>4 DEF OffByOne, Regular
<1> QED
  BY <1>2, <1>3 DEF RandomAccess

\* So does the order of its tile-parts.
LEMMA SameOrder ==
  ASSUME UNCHANGED fileVars
  PROVE  Ordered' = Ordered /\ Truthful' = Truthful /\ Spot6' = Spot6 /\ LastKnown' = LastKnown
BY DEF fileVars, Ordered, Truthful, Spot6, LastKnown, N, Tiles, NoPsot0, Part, PartsOf, NumOf

-----------------------------------------------------------------------------
(***************************************************************************)
(* The numbers of tile-parts                                               *)
(***************************************************************************)
\* Before the first call no tile has a number of tile-parts.
LEMMA InitNumbers == Init => NumbersInv
<1> SUFFICES ASSUME Init PROVE NumbersInv
  OBVIOUS
<1>1. /\ corr = 0 /\ checked = (mode = "strict") /\ stream \in Streams
      /\ nb_parts = [t \in Tiles |-> 0] /\ part_no = [t \in Tiles |-> -1]
  BY DEF Init
<1>2. \A i \in 1..N : Part(i).tile \in Tiles /\ Part(i).part \in Nat
  BY <1>1, StreamFacts
<1>3. OffByOne => ~ checked /\ corr # 1
  <2>1. OffByOne => ~ (mode = "strict")
    BY DEF OffByOne
  <2>2. corr # 1
    BY <1>1
  <2> QED
    BY <1>1, <2>1, <2>2, Zenon
<1>4. \A i \in 1..N : Part(i).part # part_no[Part(i).tile]
  BY <1>1, <1>2
<1> QED
  BY <1>1, <1>3, <1>4 DEF NumbersInv

\* The number of tile-parts of a tile, as it stands after a SOT.
LEMMA NumberRead ==
  ASSUME Types, NumbersInv, NEW i \in 1..N
  PROVE  /\ Truthful => /\ NbParts(Part(i)) \in {0, NumOf(Part(i).tile)}
                        /\ Declared(Part(i)) \in {0, NumOf(Part(i).tile)}
         /\ OffByOne => NbParts(Part(i)) = NumOf(Part(i).tile) - 1 + corr
         /\ NbParts(Part(i)) # 0 =>
              \E j \in 1..N : Part(j).tile = Part(i).tile /\ Part(j).num # 0
         /\ Part(i).num # 0 => NbParts(Part(i)) # 0
<1> DEFINE u == Part(i).tile
<1>1. /\ u \in Tiles /\ Part(i).num \in Nat /\ corr \in {0, 1} /\ stream \in Streams
  BY StreamFacts, TypesOf
<1>2. ASSUME Truthful
      PROVE  NbParts(Part(i)) \in {0, NumOf(u)} /\ Declared(Part(i)) \in {0, NumOf(u)}
  <2>1. corr = 0 /\ Part(i).num \in {0, NumOf(u)} /\ nb_parts[u] \in {0, NumOf(u)}
    BY <1>1, <1>2 DEF NumbersInv, Truthful
  <2>2. Part(i).num + corr = Part(i).num
    BY <1>1, <2>1
  <2> QED
    BY <2>1, <2>2 DEF NbParts, Declared
<1>3. ASSUME OffByOne PROVE NbParts(Part(i)) = NumOf(u) - 1 + corr
  <2>1. Part(i).num = NumOf(u) - 1 /\ NumOf(u) > 2 /\ NumOf(u) \in Nat
    BY <1>1, <1>3, NumOfBound DEF OffByOne
  <2> QED
    BY <2>1 DEF NbParts, Declared
<1>4. ASSUME NbParts(Part(i)) # 0 PROVE \E j \in 1..N : Part(j).tile = u /\ Part(j).num # 0
  BY <1>1, <1>4 DEF NbParts, NumbersInv
<1>5. ASSUME Part(i).num # 0 PROVE NbParts(Part(i)) # 0
  BY <1>1, <1>5 DEF NbParts, Declared
<1> QED
  BY <1>2, <1>3, <1>4, <1>5

\* A codestream whose TNsot is right is not corrected.
LEMMA NoCorrection ==
  ASSUME Types, Truthful, NEW i \in 1..N
  PROVE  ~ NeedsCorrection(i)
<1>1. stream \in Streams /\ N \in Nat /\ Ordered
  BY TypesOf, StreamFacts DEF Truthful
<1> SUFFICES ASSUME NEW j \in (i + 1)..N, Part(j).tile = Part(i).tile,
                    Part(j).part = Part(j).num
             PROVE  FALSE
  BY <1>1 DEF NeedsCorrection, AfterSod
<1>2. j \in 1..N /\ i < j
  BY <1>1
<1>3. Part(i).tile \in Tiles /\ Part(i).part \in Nat
  BY <1>1, StreamFacts
<1>4. Part(i).part < Part(j).part
  BY <1>1, <1>2, OrderOf
<1>5. Part(j).part \in 0..(NumOf(Part(j).tile) - 1) /\ NumOf(Part(j).tile) \in Nat
  BY <1>1, <1>2, <1>3, OrderFacts
<1>6. Part(j).num \in {0, NumOf(Part(j).tile)}
  BY <1>2 DEF Truthful
<1> QED
  BY <1>3, <1>4, <1>5, <1>6

\* A tile is complete with its last tile-part, and not before.
LEMMA LastIsLast ==
  ASSUME Types, Truthful \/ OffByOne, NumbersInv, NEW i \in 1..N, AfterSod(i) = i,
         Completes(Part(i)), ~ NeedsCorrection(i)
  PROVE  /\ Part(i).part + 1 = NumOf(Part(i).tile)
         /\ OffByOne => corr = 1
<1> DEFINE u == Part(i).tile
<1>1. /\ stream \in Streams /\ N \in Nat /\ corr \in {0, 1} /\ u \in Tiles
      /\ Part(i).part \in Nat /\ checked \in BOOLEAN
  BY TypesOf, StreamFacts
<1>2. /\ Ordered
      /\ OffByOne => \A k \in 1..N : Part(k).num = NumOf(Part(k).tile) - 1
                                     /\ NumOf(Part(k).tile) > 2
  <2>1. \A k \in 1..N : Part(k).tile \in Tiles
    BY <1>1, StreamFacts
  <2> QED
    BY <2>1 DEF Truthful, OffByOne
<1>3. NumOf(u) \in Nat
  BY <1>1, NumOfBound
<1>4. Truthful => Part(i).part + 1 = NumOf(u)
  <2> SUFFICES ASSUME Truthful PROVE Part(i).part + 1 = NumOf(u)
    OBVIOUS
  <2>1. NbParts(Part(i)) \in {0, NumOf(u)} /\ NbParts(Part(i)) = Part(i).part + 1
    BY NumberRead DEF Completes
  <2> QED
    BY <1>1, <2>1
<1>5. OffByOne => Part(i).part + 1 = NumOf(u) /\ corr = 1
  <2> SUFFICES ASSUME OffByOne PROVE Part(i).part + 1 = NumOf(u) /\ corr = 1
    OBVIOUS
  <2>1. Part(i).num = NumOf(u) - 1 /\ NumOf(u) > 2
    BY <1>2
  <2>2. NbParts(Part(i)) = NumOf(u) - 1 + corr
    BY NumberRead
  <2>3. Part(i).part + 1 = NumOf(u) - 1 + corr
    BY <2>2 DEF Completes
  <2>4. ASSUME corr = 0 PROVE FALSE
    <3>1. Part(i).part = NumOf(u) - 2 /\ NbParts(Part(i)) # 1
      BY <1>1, <1>3, <2>1, <2>2, <2>3, <2>4
    <3>2. NumOf(u) - 1 \in 0..(NumOf(u) - 1)
      BY <1>3, <2>1
    <3>3. PICK j \in 1..N : Part(j).tile = u /\ Part(j).part = NumOf(u) - 1
      BY <1>1, <1>2, <3>2, PartThere
    <3>4. Part(j).num = NumOf(u) - 1 /\ Part(i).part < Part(j).part
      BY <1>2, <1>3, <3>1, <3>3
    <3>5. i < j
      BY <1>1, <1>2, <3>3, <3>4, OrderOf
    <3>6. ASSUME NEW k \in (i + 1)..(j - 1), Part(k).tile = u PROVE FALSE
      <4>1. k \in 1..N /\ i < k /\ k < j
        BY <1>1, <3>3
      <4>2. Part(i).part < Part(k).part
        BY <1>1, <1>2, <3>6, <4>1, OrderOf
      <4>3. Part(k).part < Part(j).part
        BY <1>1, <1>2, <3>3, <3>6, <4>1, OrderOf
      <4>4. Part(k).part \in Nat
        BY <1>1, <4>1, StreamFacts
      <4> QED
        BY <1>3, <3>1, <3>3, <4>2, <4>3, <4>4
    <3>7. j \in (i + 1)..N
      BY <1>1, <3>3, <3>5
    <3>8. ~ checked
      BY <2>4 DEF NumbersInv
    <3> QED
      BY <3>1, <3>3, <3>4, <3>6, <3>7, <3>8 DEF NeedsCorrection
  <2> QED
    BY <1>1, <1>3, <2>3, <2>4
<1> QED
  BY <1>2, <1>4, <1>5

\* A SOT, and the correction if it is made, leave the numbers right.
LEMMA NumbersStep ==
  ASSUME Types, NumbersInv, UNCHANGED fileVars, NEW i \in 1..N,
         NEW nb, nb = [nb_parts EXCEPT ![Part(i).tile] = NbParts(Part(i))],
         part_no' = [part_no EXCEPT ![Part(i).tile] = Part(i).part],
         \/ nb_parts' = nb /\ corr' = corr /\ (OffByOne => (checked' <=> corr = 1))
         \/ nb_parts' = OneMore(nb) /\ corr' = 1 /\ checked' = TRUE /\ ~ Truthful
            /\ (OffByOne => corr = 0)
  PROVE  NumbersInv'
<1> DEFINE u == Part(i).tile
<1>1. /\ stream \in Streams /\ N \in Nat /\ corr \in {0, 1} /\ u \in Tiles
      /\ nb_parts \in [Tiles -> Nat] /\ part_no \in [Tiles -> Nat \cup {-1}]
      /\ \A k \in 1..N : Part(k).tile \in Tiles
  BY TypesOf, StreamFacts
<1>2. /\ N' = N /\ Tiles' = Tiles /\ OffByOne' = OffByOne /\ Truthful' = Truthful
      /\ Ordered' = Ordered /\ (\A k : Part(k)' = Part(k)) /\ (\A t : NumOf(t)' = NumOf(t))
  BY SameStream, SameOrder
<1>3. \A t \in Tiles : NumOf(t) \in Nat /\ (OffByOne => NumOf(t) > 2)
  BY <1>1, NumOfBound DEF OffByOne
<1>4. \A t \in Tiles : nb[t] = IF t = u THEN NbParts(Part(i)) ELSE nb_parts[t]
  BY <1>1
<1>5. \A t \in Tiles : nb_parts'[t] # 0 <=> nb[t] # 0
  <2>1. \A t \in Tiles : nb[t] \in Nat
    <3>1. NbParts(Part(i)) \in Nat
      BY <1>1, StreamFacts DEF NbParts, Declared
    <3> QED
      BY <1>1, <1>4, <3>1
  <2>2. CASE nb_parts' = OneMore(nb)
    BY <2>1, <2>2 DEF OneMore
  <2> QED
    BY <2>2
<1>6. ASSUME Truthful PROVE corr' = 0 /\ \A t \in Tiles : nb_parts'[t] \in {0, NumOf(t)}
  <2>1. NbParts(Part(i)) \in {0, NumOf(u)}
    BY <1>6, NumberRead
  <2> QED
    BY <1>4, <1>6, <2>1 DEF NumbersInv
<1>7. ASSUME OffByOne
      PROVE  /\ checked' <=> corr' = 1
             /\ \A t \in Tiles : nb_parts'[t] \in {0, NumOf(t) - 1 + corr'}
  <2>1. NbParts(Part(i)) = NumOf(u) - 1 + corr
    BY <1>7, NumberRead
  <2>2. \A t \in Tiles : nb[t] \in {0, NumOf(t) - 1 + corr}
    BY <1>4, <1>7, <2>1 DEF NumbersInv
  <2>3. CASE nb_parts' = nb /\ corr' = corr /\ (checked' <=> corr = 1)
    BY <2>2, <2>3
  <2>4. CASE nb_parts' = OneMore(nb) /\ corr' = 1 /\ checked' = TRUE /\ corr = 0
    <3>1. ASSUME NEW t \in Tiles PROVE nb_parts'[t] \in {0, NumOf(t) - 1 + 1}
      <4>1. nb_parts'[t] = IF nb[t] = 0 THEN 0 ELSE nb[t] + 1
        BY <2>4 DEF OneMore
      <4>2. nb[t] = 0 \/ nb[t] = NumOf(t) - 1
        BY <1>3, <2>2, <2>4
      <4> QED
        BY <1>3, <4>1, <4>2
    <3> QED
      BY <2>4, <3>1
  <2> QED
    BY <1>7, <2>3, <2>4
<1>8. ASSUME NEW t \in Tiles, nb_parts'[t] # 0
      PROVE  \E k \in 1..N : Part(k).tile = t /\ Part(k).num # 0
  <2>1. nb[t] # 0
    BY <1>5, <1>8
  <2> QED
    BY <1>4, <2>1, NumberRead DEF NumbersInv
<1>9. ASSUME Ordered, NEW k \in 1..N, Part(k).part = part_no'[Part(k).tile], Part(k).num # 0
      PROVE  nb_parts'[Part(k).tile] # 0
  <2>1. nb[Part(k).tile] # 0
    <3>1. CASE Part(k).tile = u
      <4>1. Part(k).part = Part(i).part
        BY <1>1, <1>9, <3>1
      <4>2. k = i
        BY <1>1, <1>9, <3>1, <4>1, OrderOf
      <4> QED
        BY <1>4, <1>9, <4>2, <1>1, NumberRead
    <3>2. CASE Part(k).tile # u
      <4>1. part_no'[Part(k).tile] = part_no[Part(k).tile]
        BY <1>1, <3>2
      <4> QED
        BY <1>1, <1>4, <1>9, <3>2, <4>1 DEF NumbersInv
    <3> QED
      BY <3>1, <3>2
  <2> QED
    BY <1>1, <1>5, <2>1
<1> QED
  BY <1>2, <1>6, <1>7, <1>8, <1>9 DEF NumbersInv
\* Where every Psot is given, the next tile-part follows the data of this one.
LEMMA SodEnds ==
  ASSUME IInv, NoPsot0, AtSot, NEW i \in 1..N, ReadSot(i)
  PROVE  ~ last_part' /\ AfterSod(i) = i
<1>1. ~ last_part /\ ~ Part(i).psot0
  BY DEF IInv, Book, Usable, AtSot, Found, NoPsot0
<1>2. ~ last_part'
  BY <1>1 DEF ReadSot
<1> QED
  BY <1>2 DEF AfterSod

\* No step makes the numbers of tile-parts wrong.
LEMMA NumbersNext ==
  ASSUME IInv, NumbersInv, [Next]_vars
  PROVE  NumbersInv'
<1> USE DEF fileVars, planVars, tileVars, indexVars, apiVars
<1>1. UNCHANGED fileVars /\ Types
  BY FileKept DEF IInv
<1>2. /\ N' = N /\ Tiles' = Tiles /\ OffByOne' = OffByOne /\ Truthful' = Truthful
      /\ Ordered' = Ordered /\ (\A k : Part(k)' = Part(k)) /\ (\A t : NumOf(t)' = NumOf(t))
  BY <1>1, SameStream, SameOrder
<1>3. /\ stream \in Streams /\ corr \in {0, 1} /\ checked \in BOOLEAN
      /\ \A i \in 1..N : Part(i).tile \in Tiles /\ Part(i).part \in Nat
  BY <1>1, TypesOf, StreamFacts
<1>4. CASE UNCHANGED <<corr, checked, nb_parts>> /\ (part_no' = part_no \/ part_no' = [t \in Tiles |-> -1])
  <2>1. \A i \in 1..N : Part(i).part = part_no'[Part(i).tile] =>
                          Part(i).part = part_no[Part(i).tile]
    BY <1>3, <1>4
  <2> QED
    BY <1>2, <1>4, <2>1 DEF NumbersInv
<1>5. CASE SkipNothing \/ SkipPart
  <2>1. PICK i : i = Here
    OBVIOUS
  <2>2. /\ AtSot /\ ReadSot(i) /\ corr' = corr /\ checked' = checked
        /\ nb_parts' = [nb_parts EXCEPT ![Part(i).tile] = NbParts(Part(i))]
    BY <1>5, <2>1 DEF SkipNothing, SkipPart
  <2>3. i \in 1..N
    BY <2>1, <2>2, HereInside DEF IInv
  <2>4. part_no' = [part_no EXCEPT ![Part(i).tile] = Part(i).part]
    BY <2>2 DEF ReadSot
  <2>5. OffByOne => (checked' <=> corr = 1)
    BY <2>2 DEF NumbersInv
  <2> QED
    BY <1>1, <2>2, <2>3, <2>4, <2>5, NumbersStep
<1>6. ASSUME NEW i \in 1..N, TakeAndJump(i) \/ TakeAndGoOn(i) \/ TakeLast(i) \/ TakeAndCorrect(i)
      PROVE  NumbersInv'
  <2> DEFINE nb == [nb_parts EXCEPT ![Part(i).tile] = NbParts(Part(i))]
  <2>1. AtSot /\ ReadSot(i)
    BY <1>6 DEF TakeAndJump, TakeAndGoOn, TakeLast, TakeAndCorrect, Takes
  <2>2. part_no' = [part_no EXCEPT ![Part(i).tile] = Part(i).part]
    BY <2>1 DEF ReadSot
  <2>3. CASE TakeAndJump(i) \/ TakeAndGoOn(i)
    <3>1. nb_parts' = nb /\ corr' = corr /\ checked' = checked
      BY <2>3 DEF TakeAndJump, TakeAndGoOn
    <3>2. OffByOne => (checked' <=> corr = 1)
      BY <3>1 DEF NumbersInv
    <3> QED
      BY <1>1, <2>2, <3>1, <3>2, NumbersStep
  <2>4. CASE TakeLast(i)
    <3>1. /\ nb_parts' = nb /\ corr' = corr /\ checked' = TRUE
          /\ Completes(Part(i)) /\ ~ NeedsCorrection(i)
      BY <2>4 DEF TakeLast
    <3>2. OffByOne => corr = 1
      <4>1. OffByOne => AfterSod(i) = i
        BY <2>1, SodEnds DEF OffByOne
      <4> QED
        BY <1>1, <3>1, <4>1, LastIsLast
    <3>3. OffByOne => (checked' <=> corr = 1)
      BY <3>1, <3>2
    <3> QED
      BY <1>1, <2>2, <3>1, <3>3, NumbersStep
  <2>5. CASE TakeAndCorrect(i)
    <3>1. nb_parts' = OneMore(nb) /\ corr' = 1 /\ checked' = TRUE /\ NeedsCorrection(i)
      BY <2>5 DEF TakeAndCorrect
    <3>2. ~ Truthful /\ ~ checked
      BY <1>1, <3>1, NoCorrection DEF NeedsCorrection
    <3>3. OffByOne => corr = 0
      BY <1>3, <3>2 DEF NumbersInv
    <3> QED
      BY <1>1, <2>2, <3>1, <3>2, <3>3, NumbersStep
  <2> QED
    BY <1>6, <2>3, <2>4, <2>5
<1>7. CASE CallNext
  BY <1>4, <1>7 DEF CallNext, SetArea, SetAreaFails, DecodeFast, DecodeKept, DecodeArea, GetTile,
         BeginDecode, ResetPartNumbers
<1>8. CASE PartNext
  <2>1. CASE HeaderEnds \/ SotFails \/ SkipFails \/ SodFails \/ TakeUnwanted
    BY <1>4, <2>1 DEF HeaderEnds, SotFails, SkipFails, SodFails, TakeUnwanted, Fail
  <2> QED
    BY <1>5, <1>6, <1>8, <2>1 DEF PartNext
<1>9. CASE TileNext
  BY <1>4, <1>9 DEF TileNext, FindTile, NoTile, DecodeFails, DecodeBroken, MarkerFails, FastTile,
         AreaTile, WantedTile, OtherTile, DecodesTile, Fail
<1>10. CASE Over \/ UNCHANGED vars
  BY <1>4, <1>10 DEF Over, vars
<1> QED
  BY <1>7, <1>8, <1>9, <1>10 DEF Next
-----------------------------------------------------------------------------
(***************************************************************************)
(* What has been met of a tile, and the SOT that comes next                *)
(***************************************************************************)
\* If what has not been met of its tile begins with a tile-part, that is the next one.
LEMMA NextPart ==
  ASSUME stream \in Streams, Ordered, NEW i \in 1..N, NEW m \in Nat \cup {-1},
         \A j \in 1..N : Part(j).tile = Part(i).tile => (Part(j).part > m <=> j >= i)
  PROVE  Part(i).part = m + 1
<1>1. /\ Part(i).tile \in Tiles /\ Part(i).part \in Nat /\ N \in Nat
      /\ NumOf(Part(i).tile) \in Nat
  BY StreamFacts, NumOfBound
<1>2. Part(i).part > m
  BY <1>1
<1>3. ASSUME Part(i).part # m + 1 PROVE FALSE
  <2>1. Part(i).part \in 0..(NumOf(Part(i).tile) - 1)
    BY <1>1, OrderFacts
  <2>2. Part(i).part - 1 \in 0..(NumOf(Part(i).tile) - 1) /\ Part(i).part - 1 > m
    BY <1>1, <1>2, <1>3, <2>1
  <2>3. PICK j \in 1..N : Part(j).tile = Part(i).tile /\ Part(j).part = Part(i).part - 1
    BY <1>1, <2>2, PartThere
  <2>4. j >= i
    BY <2>2, <2>3
  <2>5. j < i
    <3>1. Part(j).part < Part(i).part
      BY <1>1, <2>3
    <3> QED
      BY <2>3, <3>1, OrderOf
  <2> QED
    BY <1>1, <2>4, <2>5
<1> QED
  BY <1>3

\* Once it has been met, what follows it has not.
LEMMA AfterPart ==
  ASSUME stream \in Streams, Ordered, NEW i \in 1..N, NEW j \in 1..N,
         Part(j).tile = Part(i).tile
  PROVE  Part(j).part > Part(i).part <=> j >= i + 1
<1>1. Part(i).part \in Nat /\ Part(j).part \in Nat /\ N \in Nat
  BY StreamFacts
<1>2. Part(i).part < Part(j).part => i < j
  BY OrderOf
<1>3. i < j => Part(i).part < Part(j).part
  BY OrderOf
<1>4. j >= i + 1 <=> i < j
  BY <1>1
<1>5. Part(j).part > Part(i).part <=> Part(i).part < Part(j).part
  BY <1>1
<1> QED
  BY <1>2, <1>3, <1>4, <1>5

\* A SOT is accepted if it is the next one of a tile that is decoded, unless TNsot is
\* one short and a tile that is skipped ends before that is corrected.
LEMMA SotAccepted ==
  ASSUME Types, NumbersInv, Truthful \/ OffByOne, NEW i \in 1..N, CorrectedInTime,
         ~ OutOfOrder(Part(i)),
         InArea(Part(i).tile) => Part(i).part = part_no[Part(i).tile] + 1,
         \A t \in Tiles : InArea(t) => CorrectedLater(t),
         \A j \in 1..(i - 1) : InArea(Part(j).tile) => Part(j).part <= part_no[Part(j).tile]
  PROVE  ~ SotRefused(Part(i))
<1> DEFINE u == Part(i).tile
<1>1. /\ stream \in Streams /\ N \in Nat /\ corr \in {0, 1} /\ u \in Tiles
      /\ Part(i).part \in Nat /\ Part(i).num \in Nat /\ nb_parts[u] \in Nat
      /\ part_no \in [Tiles -> Nat \cup {-1}]
      /\ \A k \in 1..N : Part(k).tile \in Tiles /\ Part(k).part \in Nat
  BY TypesOf, StreamFacts
<1>2. Ordered
  BY DEF Truthful, OffByOne
<1>3. Part(i).part \in 0..(NumOf(u) - 1) /\ NumOf(u) \in Nat
  BY <1>1, <1>2, OrderFacts
<1>4. CASE Truthful
  <2>1. /\ corr = 0 /\ Part(i).num \in {0, NumOf(u)} /\ nb_parts[u] \in {0, NumOf(u)}
    BY <1>1, <1>4 DEF NumbersInv, Truthful
  <2> QED
    BY <1>1, <1>3, <2>1 DEF SotRefused
<1>5. CASE OffByOne
  <2>1. /\ Part(i).num = NumOf(u) - 1 /\ NumOf(u) > 2
        /\ nb_parts[u] \in {0, NumOf(u) - 1 + corr}
        /\ \A k \in 1..N : Part(k).num = NumOf(Part(k).tile) - 1
    BY <1>1, <1>5 DEF NumbersInv, OffByOne
  <2>2. corr = 1 \/ Part(i).part < NumOf(u) - 1
    <3> SUFFICES ASSUME corr = 0, Part(i).part = NumOf(u) - 1 PROVE FALSE
      BY <1>1, <1>3
    <3>1. CASE InArea(u)
      <4>1. part_no[u] + 2 < NumOf(u)
        BY <1>1, <1>5, <3>1 DEF CorrectedLater
      <4> QED
        BY <1>1, <1>3, <3>1, <4>1
    <3>2. CASE ~ InArea(u)
      <4>1. Part(i).part = Part(i).num
        BY <2>1
      <4>2. PICK j \in 1..(i - 1) : Part(j).part = Part(j).num - 1 /\ InArea(Part(j).tile)
        BY <1>5, <3>2, <4>1 DEF CorrectedInTime
      <4>3. j \in 1..N /\ Part(j).part <= part_no[Part(j).tile]
        BY <1>1, <4>2
      <4>4. PICK v \in Tiles : v = Part(j).tile
        BY <1>1, <4>3
      <4>5. part_no[v] + 2 < NumOf(v) /\ NumOf(v) \in Nat
        BY <1>1, <1>5, <4>2, <4>4, NumOfBound DEF CorrectedLater
      <4>6. Part(j).part = NumOf(v) - 2
        BY <2>1, <4>2, <4>3, <4>4, <4>5
      <4>7. part_no[v] \in Nat \cup {-1} /\ NumOf(v) - 2 <= part_no[v]
        BY <1>1, <4>3, <4>4, <4>6
      <4> QED
        BY <4>5, <4>7
    <3> QED
      BY <3>1, <3>2
  <2> QED
    BY <1>1, <1>3, <2>1, <2>2 DEF SotRefused
<1> QED
  BY <1>4, <1>5

\* TNsot is corrected when the last tile-part but one of a tile that is decoded has
\* been met, if not before.
LEMMA StillLater ==
  ASSUME Types, NumbersInv, UNCHANGED fileVars, NEW i \in 1..N, ~ SotRefused(Part(i)),
         part_no' = [part_no EXCEPT ![Part(i).tile] = Part(i).part],
         corr' = corr, ~ (Completes(Part(i)) /\ corr = 0),
         NEW t \in Tiles, t = Part(i).tile \/ CorrectedLater(t)
  PROVE  CorrectedLater(t)'
<1> SUFFICES ASSUME OffByOne, corr = 0 PROVE part_no'[t] + 2 < NumOf(t)
  BY SameStream DEF CorrectedLater
<1> DEFINE u == Part(i).tile
<1>1. /\ stream \in Streams /\ u \in Tiles /\ Part(i).part \in Nat /\ Part(i).num \in Nat
      /\ part_no \in [Tiles -> Nat \cup {-1}]
  BY TypesOf, StreamFacts
<1>2. CASE t = u
  <2>1. part_no'[t] = Part(i).part /\ NumOf(u) \in Nat
    BY <1>1, <1>2, NumOfBound
  <2>2. Part(i).num = NumOf(u) - 1 /\ NumOf(u) > 2
    BY <1>1 DEF OffByOne
  <2>3. Part(i).part < NumOf(u) - 1
    BY <1>1, <2>1, <2>2 DEF SotRefused
  <2>4. NbParts(Part(i)) = NumOf(u) - 1
    BY <2>1, NumberRead
  <2>5. NumOf(u) - 1 # Part(i).part + 1
    BY <2>4 DEF Completes
  <2> QED
    BY <1>1, <1>2, <2>1, <2>3, <2>5
<1>3. CASE t # u
  <2>1. part_no'[t] = part_no[t] /\ CorrectedLater(t)
    BY <1>1, <1>3
  <2> QED
    BY <2>1 DEF CorrectedLater
<1> QED
  BY <1>2, <1>3

-----------------------------------------------------------------------------
(***************************************************************************)
(* Asking for a tile                                                       *)
(***************************************************************************)
\* What conformant TLM markers announce is what there is.
LEMMA InitMet == Init /\ Conformant /\ stream.tlm # <<>> =>
                   tlm_ok /\ \A t \in Tiles : nb_tps[t] = NumOf(t)
<1> SUFFICES ASSUME Init, Conformant, stream.tlm # <<>>
             PROVE  tlm_ok /\ \A t \in Tiles : nb_tps[t] = NumOf(t)
  OBVIOUS
<1>1. stream \in Streams /\ Ordered
  BY DEF Init, Conformant
<1>2. StreamOK(stream)
  BY <1>1, DecoderAssumption
<1>3. /\ stream.tlm \in [1..N -> 0..(stream.tiles - 1)]
      /\ \A i \in 1..N : stream.tlm[i] = Part(i).tile
  BY <1>2, Zenon DEF StreamOK, N, Conformant
<1>4. \A t : TlmParts(stream, t) = PartsOf(t)
  <2> SUFFICES ASSUME NEW t PROVE TlmParts(stream, t) = PartsOf(t)
    OBVIOUS
  <2>1. {i \in DOMAIN stream.tlm : stream.tlm[i] = t} = {i \in 1..N : Part(i).tile = t}
    BY <1>3
  <2> QED
    BY <2>1 DEF TlmParts, PartsOf
<1>5. TlmValid(stream)
  <2>1. ASSUME NEW t \in Tiles PROVE \E i \in DOMAIN stream.tlm : stream.tlm[i] = t
    <3>1. 0 \in 0..(NumOf(t) - 1)
      BY <1>1, OrderFacts
    <3>2. PICK i \in 1..N : Part(i).tile = t
      BY <1>1, <3>1, PartThere
    <3> QED
      BY <1>3, <3>2
  <2> QED
    BY <2>1 DEF TlmValid, Tiles
<1> QED
  BY <1>4, <1>5 DEF Init, NumOf

\* Before the first call any tile can be asked for.
LEMMA InitAccess == Init => Access
<1> SUFFICES ASSUME Init, RandomAccess PROVE MetInv /\ PositionInv /\ WholeInv
  BY DEF Access, Asking
<1>1. stream \in Streams /\ wanted = -1 /\ plan = <<>> /\ at = 1 /\ pc = "idle"
      /\ last_sot = 0 /\ state = "TPHSOT"
  BY DEF Init
<1>2. stream.tlm # <<>> => Conformant
  BY <1>1, AccessFacts
<1>3. MetInv
  <2>1. CASE stream.tlm = <<>>
    <3>1. ~ tlm_ok /\ start = [t \in Tiles |-> NoIndex] /\ nb_tps = [t \in Tiles |-> 0]
      BY <2>1 DEF Init, TlmValid
    <3> QED
      BY <1>1, <2>1, <3>1 DEF MetInv
  <2>2. CASE stream.tlm # <<>>
    <3>1. tlm_ok /\ \A t \in Tiles : nb_tps[t] = NumOf(t)
      BY <1>2, <2>2, InitMet
    <3> QED
      BY <2>2, <3>1 DEF MetInv
  <2> QED
    BY <2>1, <2>2
<1>4. PositionInv /\ WholeInv
  BY <1>1 DEF PositionInv, WholeInv
<1> QED
  BY <1>3, <1>4

\* A seek goes to a tile-part, and not past one of the tile that is asked for.
LEMMA SeekAhead ==
  ASSUME IInv, IndexRight, RandomAccess, MetInv, PositionInv, pc = "idle",
         NEW t \in Tiles
  PROVE  /\ SeekTile(t) \in 1..N
         /\ \A i \in 1..N : Part(i).tile = t => i >= SeekTile(t)
         /\ ~ tlm_ok => SeekTile(t) <= last_sot + 1
<1>1. /\ stream \in Streams /\ nb_tps \in [Tiles -> Nat] /\ last_sot \in 0..N /\ N \in Nat \ {0}
      /\ tlm_ok \in BOOLEAN /\ at = 1 /\ PartNumbers(stream) = 0..N
  BY TypesOf, StreamFacts DEF IInv, PositionInv, PartNumbers, N
<1>2. Ordered /\ Regular /\ Types
  BY <1>1, AccessFacts DEF IInv
<1>3. NumOf(t) \in Nat \ {0}
  BY <1>1, <1>2, OrderFacts
<1>4. CASE start[0] = NoIndex
  BY <1>1, <1>4 DEF SeekTile
<1>5. CASE start[0] # NoIndex /\ nb_tps[t] = 0
  <2>1. SeekTile(t) = last_sot
    BY <1>5 DEF SeekTile
  <2>2. ~ tlm_ok /\ last_sot > 0
    <3>1. ~ tlm_ok
      BY <1>3, <1>5 DEF MetInv
    <3>2. 0 \in Tiles
      BY <1>1, StreamFacts
    <3> QED
      BY <1>5, <3>1, <3>2 DEF MetInv
  <2>3. ASSUME NEW i \in 1..N, Part(i).tile = t, i < last_sot PROVE FALSE
    <3>1. 0 \in 0..(NumOf(t) - 1)
      BY <1>3
    <3>2. PICK j \in 1..N : Part(j).tile = t /\ Part(j).part = 0
      BY <1>1, <1>2, <3>1, PartThere
    <3>3. Part(i).part \in Nat
      BY <1>1, StreamFacts
    <3>4. j <= i
      <4>1. Part(j).part < Part(i).part => j < i
        BY <1>1, <1>2, <2>3, <3>2, OrderOf
      <4>2. Part(j).part = Part(i).part => j = i
        BY <1>1, <1>2, <2>3, <3>2, OrderOf
      <4> QED
        BY <3>2, <3>3, <4>1, <4>2
    <3>5. j \in 1..last_sot
      BY <1>1, <2>3, <3>4
    <3> QED
      BY <1>5, <2>2, <3>2, <3>5 DEF MetInv
  <2> QED
    BY <1>1, <2>1, <2>2, <2>3
<1>6. CASE start[0] # NoIndex /\ nb_tps[t] # 0
  <2>1. SeekTile(t) = start[t][0] /\ start[t] # NoIndex
    BY <1>1, <1>6 DEF SeekTile, IInv, IndexInv
  <2>2. PICK s : s = start[t][0]
    OBVIOUS
  <2>3. s \in 1..N /\ Part(s).tile = t /\ Part(s).part = 0
    <3>1. start[t][0] \in 0..N /\ 0 \in PartNumbers(stream)
      BY <1>1, <1>2, <2>1, IndexAt
    <3>2. start[t][0] # Unset
      <4>1. nb_tps[t] > 0 /\ nb_tps[t] \in Nat /\ 0 \in 0..(nb_tps[t] - 1)
        BY <1>1, <1>6
      <4> QED
        BY <1>1, <4>1 DEF IInv, IndexInv, MetInv
    <3>3. Part(start[t][0]).tile = t /\ Part(start[t][0]).part = 0
      BY <1>2, <2>1, <3>1, <3>2 DEF IndexRight
    <3> QED
      BY <1>1, <2>1, <2>2, <3>1, <3>2, <3>3 DEF Unset
  <2>4. ASSUME NEW i \in 1..N, Part(i).tile = t PROVE i >= s
    <3>1. Part(i).part \in Nat
      BY <1>1, StreamFacts
    <3>2. Part(s).part < Part(i).part => s < i
      BY <1>1, <1>2, <2>3, <2>4, OrderOf
    <3>3. Part(s).part = Part(i).part => s = i
      BY <1>1, <1>2, <2>3, <2>4, OrderOf
    <3> QED
      BY <2>3, <3>1, <3>2, <3>3
  <2>5. ~ tlm_ok => s <= last_sot
    BY <1>1, <2>1, <2>2 DEF MetInv
  <2> QED
    BY <1>1, <2>1, <2>2, <2>3, <2>4, <2>5
<1> QED
  BY <1>4, <1>5, <1>6

\* What a SOT stores in the index of a tile: itself, or what was there.
LEMMA StoreShape ==
  ASSUME Types, NEW i \in 1..N, Index(i), NEW t \in Tiles, NEW q \in 0..N
  PROVE  start'[t][q] = i \/ start'[t][q] = 0 \/ t # Part(i).tile
           \/ (start[t] # NoIndex /\ start'[t][q] = start[t][q])
<1> SUFFICES ASSUME t = Part(i).tile
             PROVE  \/ start'[t][q] = i \/ start'[t][q] = 0
                    \/ (start[t] # NoIndex /\ start'[t][q] = start[t][q])
  OBVIOUS
<1> DEFINE p == Part(i)
           known == IF start[t] = NoIndex THEN [r \in PartNumbers(stream) |-> Unset]
                                          ELSE start[t]
           new == IF p.part < nb_tps'[t] THEN [known EXCEPT ![p.part] = i] ELSE known
<1>1. PartNumbers(stream) = 0..N
  BY DEF PartNumbers, N
<1>2. known \in [0..N -> 0..N]
  <2>1. CASE start[t] = NoIndex
    BY <1>1, <2>1, StreamFacts, TypesOf DEF Unset
  <2>2. CASE start[t] # NoIndex
    BY <1>1, <2>2, IndexAt
  <2> QED
    BY <2>1, <2>2
<1>3. start'[t] = new
  <2>1. start \in [Tiles -> {NoIndex} \cup [PartNumbers(stream) -> 0..N]]
    BY TypesOf
  <2>2. start' = [start EXCEPT ![t] = new]
    BY DEF Index
  <2> HIDE DEF new
  <2> QED
    BY <2>1, <2>2
<1>4. new[q] = i \/ new[q] = known[q]
  <2> HIDE DEF known
  <2>1. [known EXCEPT ![p.part] = i][q] = i \/ [known EXCEPT ![p.part] = i][q] = known[q]
    BY <1>2
  <2> QED
    BY <2>1
<1>5. known[q] = 0 \/ (start[t] # NoIndex /\ known[q] = start[t][q])
  BY <1>1 DEF Unset
<1> QED
  BY <1>3, <1>4, <1>5

\* In its own place a SOT stores itself, if it is known; the other places stay.
LEMMA StoreAt ==
  ASSUME Types, NEW i \in 1..N, Index(i)
  PROVE  /\ Part(i).part < nb_tps'[Part(i).tile] /\ Part(i).part \in 0..N =>
              start'[Part(i).tile][Part(i).part] = i
         /\ start[Part(i).tile] # NoIndex =>
              \A q \in 0..N : q # Part(i).part => start'[Part(i).tile][q] = start[Part(i).tile][q]
<1> DEFINE p == Part(i)
           t == Part(i).tile
           known == IF start[t] = NoIndex THEN [r \in PartNumbers(stream) |-> Unset]
                                          ELSE start[t]
           new == IF p.part < nb_tps'[t] THEN [known EXCEPT ![p.part] = i] ELSE known
<1>1. PartNumbers(stream) = 0..N /\ t \in Tiles
  BY TypesOf, StreamFacts DEF PartNumbers, N
<1>2. known \in [0..N -> 0..N]
  <2>1. CASE start[t] = NoIndex
    BY <1>1, <2>1, StreamFacts, TypesOf DEF Unset
  <2>2. CASE start[t] # NoIndex
    BY <1>1, <2>2, IndexAt
  <2> QED
    BY <2>1, <2>2
<1>3. start'[t] = new
  <2>1. start \in [Tiles -> {NoIndex} \cup [PartNumbers(stream) -> 0..N]]
    BY TypesOf
  <2>2. start' = [start EXCEPT ![t] = new]
    BY DEF Index
  <2> HIDE DEF new
  <2> QED
    BY <1>1, <2>1, <2>2
<1>4. p.part < nb_tps'[t] /\ p.part \in 0..N => new[p.part] = i
  <2> HIDE DEF known
  <2> QED
    BY <1>2
<1>5. \A q \in 0..N : q # p.part => new[q] = known[q]
  <2> HIDE DEF known
  <2> QED
    BY <1>2
<1>6. start[t] # NoIndex => known = start[t]
  OBVIOUS
<1> HIDE DEF known, new
<1> QED
  BY <1>3, <1>4, <1>5, <1>6

\* Reading a SOT keeps the index true to what has been met.
LEMMA MetStep ==
  ASSUME Types, IndexInv, RandomAccess, NumbersInv, MetInv, UNCHANGED fileVars,
         NEW i \in 1..N, ~ tlm_ok => i <= last_sot + 1, Index(i)
  PROVE  MetInv' /\ tlm_ok' = tlm_ok /\ i <= last_sot'
<1> DEFINE u == Part(i).tile
<1>1. /\ stream \in Streams /\ N \in Nat /\ nb_tps \in [Tiles -> Nat] /\ last_sot \in 0..N
      /\ tlm_ok \in BOOLEAN
      /\ start \in [Tiles -> {NoIndex} \cup [PartNumbers(stream) -> 0..N]]
  BY TypesOf, StreamFacts
<1>0. PartNumbers(stream) = 0..N /\ i \in Nat
  BY <1>1 DEF PartNumbers, N
<1>2. /\ u \in Tiles /\ Part(i).part \in Nat /\ Part(i).num \in Nat
      /\ \A k \in 1..N : Part(k).tile \in Tiles
  BY <1>1, StreamFacts
<1>3. /\ Ordered /\ (stream.tlm # <<>> => Conformant)
      /\ \A k \in 1..N : Part(k).part = 0 => Part(k).num > 0
  BY <1>1, AccessFacts
<1>4. /\ last_sot' = (IF i > last_sot THEN i ELSE last_sot)
      /\ nb_tps' = [nb_tps EXCEPT ![u] = IF tlm_ok' \/ Part(i).num = 0 THEN @
                                         ELSE Declared(Part(i))]
      /\ tlm_ok' = (tlm_ok /\ Declared(Part(i)) <= nb_tps[u])
  BY DEF Index
<1>5. i <= last_sot' /\ last_sot <= last_sot'
  BY <1>0, <1>1, <1>4
<1>6. tlm_ok => Declared(Part(i)) <= nb_tps[u]
  <2> SUFFICES ASSUME tlm_ok PROVE Declared(Part(i)) <= nb_tps[u]
    OBVIOUS
  <2>1. Truthful /\ nb_tps[u] = NumOf(u)
    BY <1>2, <1>3 DEF MetInv, Conformant, Truthful
  <2>2. Declared(Part(i)) \in {0, NumOf(u)}
    BY <2>1, NumberRead
  <2> QED
    BY <1>1, <1>2, <2>1, <2>2
<1>7. tlm_ok' = tlm_ok
  BY <1>1, <1>4, <1>6, Zenon
<1>8. stream' = stream /\ Tiles' = Tiles /\ (\A k : Part(k)' = Part(k))
      /\ (\A t : NumOf(t)' = NumOf(t))
  BY SameStream DEF fileVars
<1>9. CASE tlm_ok
  <2>1. nb_tps' = nb_tps
    BY <1>7, <1>9, IndexStep
  <2>2. tlm_ok' /\ stream.tlm # <<>> /\ \A t \in Tiles : nb_tps'[t] = NumOf(t)
    BY <1>7, <1>9, <2>1 DEF MetInv
  <2> QED
    BY <1>5, <1>7, <1>8, <2>2 DEF MetInv
<1>10. CASE ~ tlm_ok
  <2>1. stream.tlm = <<>> /\ i <= last_sot + 1
    BY <1>10 DEF MetInv
  <2>2. Part(i).num # 0 => nb_tps'[u] = Declared(Part(i)) /\ Declared(Part(i)) > 0
    <3>1. corr \in {0, 1}
      BY TypesOf
    <3> QED
      BY <1>1, <1>2, <1>4, <1>7, <1>10, <3>1 DEF Declared
  <2>3. \A t \in Tiles : t # u \/ Part(i).num = 0 => nb_tps'[t] = nb_tps[t]
    BY <1>1, <1>2, <1>4
  <2>4. ASSUME NEW k \in 1..last_sot', Part(k).part = 0
        PROVE  nb_tps'[Part(k).tile] > 0
    <3>1. k \in 1..N /\ (k = i \/ k \in 1..last_sot)
      BY <1>0, <1>1, <1>4, <2>1
    <3>2. CASE k = i
      <4>1. Part(i).num # 0
        BY <1>2, <1>3, <2>4, <3>2
      <4> QED
        BY <2>2, <3>2, <4>1
    <3>3. CASE k \in 1..last_sot
      <4>1. nb_tps[Part(k).tile] > 0
        BY <1>10, <2>4, <3>3 DEF MetInv
      <4> QED
        BY <1>2, <2>2, <2>3, <3>1, <4>1
    <3> QED
      BY <3>1, <3>2, <3>3
  <2>5. ASSUME NEW t \in Tiles, start'[t] # NoIndex, NEW p \in 0..N
        PROVE  start'[t][p] <= last_sot'
    <3>1. CASE t = u
      <4>1. \/ start'[t][p] = i \/ start'[t][p] = 0
            \/ (start[t] # NoIndex /\ start'[t][p] = start[t][p])
        BY <3>1, StoreShape
      <4>2. start[t] # NoIndex => start[t][p] \in 0..N /\ start[t][p] <= last_sot
        BY <1>0, <1>1, <1>10, IndexAt DEF MetInv
      <4>3. PICK l : l = last_sot'
        OBVIOUS
      <4>4. l \in Nat /\ i <= l /\ last_sot <= l
        BY <1>1, <1>4, <1>5, <4>3
      <4>5. PICK s : s = start'[t][p]
        OBVIOUS
      <4>6. s = i \/ s = 0 \/ (s \in 0..N /\ s <= last_sot)
        BY <4>1, <4>2, <4>5
      <4> QED
        BY <1>0, <1>1, <4>3, <4>4, <4>5, <4>6
    <3>2. CASE t # u
      <4>1. start'[t] = start[t]
        BY <1>1, <3>2 DEF Index
      <4>2. start[t][p] \in 0..N /\ start[t][p] <= last_sot
        BY <1>0, <1>1, <1>10, <2>5, <4>1, IndexAt DEF MetInv
      <4> QED
        BY <1>1, <1>4, <4>1, <4>2
    <3> QED
      BY <3>1, <3>2
  <2>8. ASSUME NEW t \in Tiles, nb_tps'[t] > 0 PROVE start'[t][0] # Unset
    <3>1. CASE t # u
      <4>1. start'[t] = start[t] /\ nb_tps'[t] = nb_tps[t]
        BY <1>1, <2>3, <3>1 DEF Index
      <4> QED
        BY <1>10, <2>8, <4>1 DEF MetInv
    <3>2. CASE t = u /\ Part(i).part = 0
      <4>1. 0 \in 0..N /\ start'[u][0] = i
        BY <1>1, <2>8, <3>2, StoreAt
      <4> QED
        BY <3>2, <4>1 DEF Unset
    <3>3. CASE t = u /\ Part(i).part # 0
      <4>1. 0 \in 0..(NumOf(u) - 1)
        BY <1>1, <1>2, <1>3, OrderFacts
      <4>2. PICK j \in 1..N : Part(j).tile = u /\ Part(j).part = 0
        BY <1>1, <1>2, <1>3, <4>1, PartThere
      <4>3. j < i
        BY <1>1, <1>2, <1>3, <3>3, <4>2, OrderOf
      <4>4. j \in 1..last_sot
        BY <1>0, <1>1, <2>1, <4>3
      <4>5. nb_tps[u] > 0
        BY <1>10, <4>2, <4>4 DEF MetInv
      <4>6. start[u] # NoIndex /\ start[u][0] # Unset
        BY <1>2, <1>10, <4>5 DEF IndexInv, MetInv
      <4>7. start'[u][0] = start[u][0]
        BY <1>1, <3>3, <4>6, StoreAt
      <4> QED
        BY <3>3, <4>6, <4>7
    <3> QED
      BY <3>1, <3>2, <3>3
  <2>9. last_sot' > 0
    BY <1>0, <1>1, <1>4
  <2>6. PartNumbers(stream') = 0..N
    BY <1>0, <1>8
  <2>7. ~ tlm_ok' /\ stream'.tlm = <<>>
    BY <1>7, <1>8, <1>10, <2>1
  <2> QED
    BY <1>5, <1>7, <1>8, <2>4, <2>5, <2>6, <2>7, <2>8, <2>9 DEF MetInv
<1> QED
  BY <1>1, <1>9, <1>10

-----------------------------------------------------------------------------
(***************************************************************************)
(* The loop over the tile-parts, when a tile has been asked for            *)
(***************************************************************************)
\* After a SOT, what is still wanted lies after it.
LEMMA SotAccess ==
  ASSUME IInv, RandomAccess, NumbersInv, MetInv, PositionInv, wanted # -1,
         UNCHANGED <<fileVars, apiVars>>, AtSot, NEW i \in 1..N, i = Here, ReadSot(i)
  PROVE  /\ plan' = <<>> /\ MetInv' /\ tlm_ok' = tlm_ok /\ i <= last_sot'
         /\ ~ last_part' /\ AfterSod(i) = i
         /\ part_no' = [part_no EXCEPT ![Part(i).tile] = Part(i).part]
         /\ \A j \in 1..N : Part(j).tile = wanted =>
              (Part(j).part > part_no'[wanted] <=> j >= i + 1)
<1>1. /\ stream \in Streams /\ N \in Nat /\ part_no \in [Tiles -> Nat \cup {-1}]
      /\ wanted \in Tiles \cup {-1} /\ at \in 0..(N + 1)
  BY TypesOf, StreamFacts DEF IInv
<1>2. Part(i).tile \in Tiles
  BY <1>1, StreamFacts
<1>3. plan = <<>> /\ i = at /\ Ordered /\ NoPsot0 /\ Synced(wanted)
  BY <1>1, AccessFacts DEF PositionInv, Here, AtSot
<1>4. plan' = <<>> /\ Index(i) /\ part_no' = [part_no EXCEPT ![Part(i).tile] = Part(i).part]
  BY <1>3 DEF ReadSot, Jump
<1>5. ~ last_part' /\ AfterSod(i) = i
  BY <1>3, SodEnds
<1>6. MetInv' /\ tlm_ok' = tlm_ok /\ i <= last_sot'
  <2>1. ~ tlm_ok => i <= last_sot + 1
    BY <1>3 DEF PositionInv
  <2> QED
    BY <1>4, <2>1, MetStep DEF IInv
<1>7. ASSUME NEW j \in 1..N, Part(j).tile = wanted
      PROVE  Part(j).part > part_no'[wanted] <=> j >= i + 1
  <2>1. CASE Part(i).tile = wanted
    <3>1. part_no'[wanted] = Part(i).part
      BY <1>1, <1>2, <1>4, <2>1
    <3> QED
      BY <1>1, <1>3, <1>7, <2>1, <3>1, AfterPart
  <2>2. CASE Part(i).tile # wanted
    <3>1. part_no'[wanted] = part_no[wanted]
      BY <1>1, <1>2, <1>4, <2>2
    <3>2. Part(j).part > part_no[wanted] <=> j >= i
      BY <1>3, <1>7 DEF Synced
    <3>3. j # i
      BY <1>7, <2>2
    <3> QED
      BY <1>1, <3>1, <3>2, <3>3
  <2> QED
    BY <2>1, <2>2
<1> QED
  BY <1>4, <1>5, <1>6, <1>7

\* The marker that follows a tile-part, if there is an EOC.
LEMMA MarkerPlace ==
  ASSUME stream \in Streams, NEW i \in 1..N, NEW t, NEW s, NextMarker(i, t, s), stream.eoc
  PROVE  /\ at' = i + 1
         /\ i < N => pc' = "header" /\ state' = s /\ tile' = t
         /\ i = N => pc' = "found" /\ state' = "EOC" /\ tile' = 0
<1>1. N \in Nat
  BY StreamFacts
<1> QED
  BY <1>1 DEF NextMarker

\* With an EOC no tile-part is cut short.
LEMMA NotCut ==
  ASSUME stream \in Streams, stream.eoc
  PROVE  ~ stream.cut
<1>1. StreamOK(stream)
  BY DecoderAssumption
<1> QED
  BY <1>1, Zenon DEF StreamOK

\* When nothing is left ahead, what has been counted is the whole tile.
LEMMA NothingAhead ==
  ASSUME stream \in Streams, Ordered, NEW t \in Tiles, NEW d \in Seq(1..N),
         NEW m \in Nat \cup {-1}, Len(d) = m + 1,
         \A k \in 1..Len(d) : Part(d[k]).tile = t /\ Part(d[k]).part = k - 1,
         \A i \in 1..N : ~ (Part(i).tile = t /\ Part(i).part > m)
  PROVE  Len(d) = NumOf(t)
<1>1. \A i \in 1..N : Part(i).tile = t => Part(i).part <= m
  <2>1. \A i \in 1..N : Part(i).part \in Nat
    BY StreamFacts
  <2> QED
    BY <2>1
<1> QED
  BY <1>1, NoneLeft

\* If nothing wanted lies ahead of where the loop ends, the tile has all it needs.
LEMMA WholeAtEnd ==
  ASSUME IInv', stream \in Streams, Ordered, NoPsot0, UNCHANGED <<fileVars, apiVars>>,
         wanted \in Tiles, pc' = "found",
         \A j \in 1..N : ~ (Part(j).tile = wanted /\ Part(j).part > part_no'[wanted])
  PROVE  Whole(wanted)'
<1>1. /\ N' = N /\ Tiles' = Tiles /\ NoPsot0' = NoPsot0 /\ (\A i : Part(i)' = Part(i))
      /\ (\A t : NumOf(t)' = NumOf(t))
  BY SameStream
<1>2. wanted' = wanted
  BY DEF apiVars
<1>3. data' \in [Tiles -> Seq(1..N)] /\ part_no' \in [Tiles -> Nat \cup {-1}]
  BY <1>1 DEF IInv, Types, TypeOK
<1>4. \A t \in Tiles : InOrder(t)'
  BY <1>1 DEF IInv, Book
<1>5. Counted(wanted)'
  <2>1. wanted # -1
    BY DEF Tiles
  <2>2. Collected'
    BY <1>1 DEF IInv, Book, Usable
  <2> QED
    BY <1>2, <2>1, <2>2 DEF Collected, InCall
<1>6. PICK d \in Seq(1..N) : d = data'[wanted]
  BY <1>3
<1>7. PICK m \in Nat \cup {-1} : m = part_no'[wanted]
  BY <1>3
<1>8. Len(d) = m + 1
  BY <1>2, <1>5, <1>6, <1>7 DEF Counted
<1>9. \A k \in 1..Len(d) : Part(d[k]).tile = wanted /\ Part(d[k]).part = k - 1
  BY <1>1, <1>2, <1>4, <1>6 DEF InOrder
<1>10. Len(d) = NumOf(wanted)
  BY <1>7, <1>8, <1>9, NothingAhead
<1> QED
  BY <1>1, <1>2, <1>6, <1>10 DEF Whole

\* The loop over the tile-parts finds all of the tile that has been asked for.
LEMMA PartAccess ==
  ASSUME IInv, IInv', IndexRight', RandomAccess, NumbersInv, MetInv, PositionInv,
         wanted # -1, PartNext, Usable'
  PROVE  MetInv' /\ PositionInv' /\ WholeInv'
<1> USE DEF fileVars, planVars, tileVars, indexVars, apiVars
<1>1. UNCHANGED fileVars
  BY FileKept DEF Next
<1>2. UNCHANGED apiVars /\ wanted' = wanted
  BY DEF PartNext, HeaderEnds, SotFails, SkipNothing, SkipPart, SkipFails, SodFails, TakeAndJump,
         TakeAndGoOn, TakeLast, TakeAndCorrect, TakeUnwanted, Fail
<1>3. /\ stream \in Streams /\ N \in Nat \ {0} /\ wanted \in Tiles /\ nb_parts \in [Tiles -> Nat]
      /\ at \in 0..(N + 1) /\ data \in [Tiles -> Seq(1..N)] /\ state \in {"TPHSOT", "EOC", "NEOC"}
      /\ part_no \in [Tiles -> Nat \cup {-1}] /\ corr \in {0, 1}
      /\ \A j \in 1..N : Part(j).tile \in Tiles /\ Part(j).part \in Nat
  BY TypesOf, StreamFacts DEF IInv
<1>4. Ordered /\ NoPsot0 /\ Regular /\ (Truthful \/ OffByOne) /\ stream.eoc /\ ~ stream.cut
  <2>1. Ordered /\ NoPsot0 /\ Regular
    BY <1>3, AccessFacts
  <2>2. (Truthful \/ OffByOne) /\ stream.eoc
    BY <2>1 DEF Regular, Conformant, OffByOne, Truthful
  <2> QED
    BY <1>3, <2>1, <2>2, NotCut
<1>5. /\ N' = N /\ Tiles' = Tiles /\ (\A k : Part(k)' = Part(k))
      /\ (\A t : NumOf(t)' = NumOf(t)) /\ Regular' = Regular /\ OffByOne' = OffByOne
  BY <1>1, SameStream DEF Regular
<1>6. pc = "header" /\ can_decode = FALSE /\ plan = <<>> /\ at <= N
  <2>1. pc \in {"header", "sod"}
    BY DEF PartNext, HeaderEnds, SotFails, SkipNothing, SkipPart, SkipFails, SodFails, TakeAndJump,
           TakeAndGoOn, TakeLast, TakeAndCorrect, TakeUnwanted, Takes, AtSot
  <2>2. pc = "header" /\ ~ can_decode
    BY <1>4, <2>1 DEF IInv, Book, Usable, Found
  <2>3. can_decode \in BOOLEAN
    BY TypesOf DEF IInv
  <2> QED
    BY <2>2, <2>3 DEF PositionInv
<1>7. ASSUME NEW i \in 1..N, AtSot, i = Here, ReadSot(i)
      PROVE  /\ plan' = <<>> /\ MetInv' /\ tlm_ok' = tlm_ok /\ i <= last_sot'
             /\ ~ last_part' /\ AfterSod(i) = i /\ SodState(i) = "TPHSOT"
             /\ part_no' = [part_no EXCEPT ![Part(i).tile] = Part(i).part]
             /\ \A j \in 1..N : Part(j).tile = wanted =>
                  (Part(j).part > part_no'[wanted] <=> j >= i + 1)
  BY <1>1, <1>2, <1>4, <1>7, SotAccess DEF SodState, IsCut
<1>8. last_sot' \in 0..N
  BY <1>5 DEF IInv, Types, TypeOK
\* The part is not the last, and the next marker is read.
<1>9. ASSUME NEW i \in 1..N, AtSot, i = Here, ReadSot(i), NEW t, NextMarker(i, t, "TPHSOT"),
             can_decode' = can_decode, CorrectedLater(wanted)'
      PROVE  PositionInv' /\ WholeInv'
  <2>1. /\ at' = i + 1
        /\ i < N => pc' = "header" /\ state' = "TPHSOT"
        /\ i = N => pc' = "found" /\ state' = "EOC" /\ tile' = 0
    BY <1>3, <1>4, <1>9, MarkerPlace
  <2>2. /\ plan' = <<>> /\ i <= last_sot'
        /\ \A j \in 1..N : Part(j).tile = wanted =>
             (Part(j).part > part_no'[wanted] <=> j >= i + 1)
    BY <1>7, <1>9
  <2>3. at' <= last_sot' + 1 /\ (i = N => last_sot' = N)
    <3>1. PICK l \in 0..N : l = last_sot'
      BY <1>8
    <3>2. i <= l
      BY <2>2, <3>1
    <3>3. i + 1 <= l + 1 /\ (i = N => l = N)
      BY <1>3, <3>2
    <3> QED
      BY <2>1, <3>1, <3>3
  <2>4. (i < N \/ i = N) /\ (i < N => i + 1 <= N)
    BY <1>3
  <2>5. pc' = "header" => at' <= N' /\ Synced(wanted)'
    <3>1. pc' = "header" => i < N
      BY <2>1, <2>4
    <3> QED
      BY <1>2, <1>5, <2>1, <2>2, <2>4, <3>1 DEF Synced
  <2>6. PositionInv'
    BY <1>2, <1>5, <1>9, <2>1, <2>2, <2>3, <2>4, <2>5 DEF PositionInv
  <2>7. pc' = "found" => Whole(wanted)'
    <3> SUFFICES ASSUME pc' = "found" PROVE Whole(wanted)'
      OBVIOUS
    <3>1. i = N
      BY <2>1, <2>4
    <3>2. \A j \in 1..N : ~ (Part(j).tile = wanted /\ Part(j).part > part_no'[wanted])
      BY <1>3, <2>2, <3>1
    <3> QED
      BY <1>1, <1>2, <1>3, <1>4, <3>2, WholeAtEnd
  <2>8. WholeInv'
    BY <1>2, <1>6, <1>9, <2>1, <2>4, <2>7 DEF WholeInv, Whole
  <2> QED
    BY <2>6, <2>8
<1>10. CASE HeaderEnds
  BY <1>3, <1>6, <1>10 DEF HeaderEnds, Here
<1>11. CASE SotFails \/ SkipFails \/ SodFails \/ TakeUnwanted
  BY <1>6, <1>11 DEF SotFails, SkipFails, SodFails, Fail, TakeUnwanted, Usable
<1>14. CASE SkipNothing
  <2>1. AtSot /\ ReadSot(Here) /\ last_part'
    BY <1>14 DEF SkipNothing
  <2>2. Here \in 1..N
    BY <2>1, HereInside DEF IInv
  <2> QED
    BY <1>7, <2>1, <2>2
<1>15. CASE SkipPart
  <2>1. PICK i : i = Here
    OBVIOUS
  <2>2. /\ AtSot /\ ReadSot(i) /\ Skips(Part(i)) /\ corr' = corr /\ can_decode' = can_decode
        /\ NextMarker(i, Part(i).tile, "TPHSOT")
    BY <1>15, <2>1 DEF SkipPart
  <2>3. i \in 1..N
    BY <2>1, <2>2, HereInside DEF IInv
  <2>4. CorrectedLater(wanted)'
    <3>1. Part(i).tile # wanted
      BY <2>2 DEF Skips
    <3>2. part_no'[wanted] = part_no[wanted]
      BY <1>3, <1>7, <2>1, <2>2, <2>3, <3>1
    <3> QED
      BY <1>2, <1>5, <1>6, <2>2, <3>2 DEF PositionInv, CorrectedLater
  <2> QED
    BY <1>7, <1>9, <2>1, <2>2, <2>3, <2>4
<1>16. ASSUME NEW i \in 1..N, TakeAndJump(i) \/ TakeAndGoOn(i) \/ TakeLast(i) \/ TakeAndCorrect(i)
       PROVE  MetInv' /\ PositionInv' /\ WholeInv'
  <2>1. Takes(i)
    BY <1>16 DEF TakeAndJump, TakeAndGoOn, TakeLast, TakeAndCorrect
  <2>2. AtSot /\ i = Here /\ ReadSot(i) /\ ~ SotRefused(Part(i)) /\ Part(i).tile = wanted
    BY <1>2, <1>3, <2>1 DEF Takes, Skips, Tiles
  <2>3. /\ plan' = <<>> /\ MetInv' /\ tlm_ok' = tlm_ok /\ i <= last_sot' /\ ~ last_part'
        /\ part_no' = [part_no EXCEPT ![Part(i).tile] = Part(i).part]
        /\ part_no'[wanted] = Part(i).part /\ Part(i).part \in Nat
        /\ \A j \in 1..N : Part(j).tile = wanted =>
             (Part(j).part > part_no'[wanted] <=> j >= i + 1)
        /\ AfterSod(i) = i /\ SodState(i) = "TPHSOT"
    BY <1>3, <1>7, <2>2
  <2>4. ASSUME corr' = corr, ~ Completes(Part(i)) PROVE CorrectedLater(wanted)'
    <3>1. PICK w \in Tiles : w = wanted
      BY <1>3
    <3>2. Types /\ ~ (Completes(Part(i)) /\ corr = 0) /\ w = Part(i).tile
      BY <2>2, <2>4, <3>1 DEF IInv
    <3>3. CorrectedLater(w)'
      BY <1>1, <2>2, <2>3, <2>4, <3>2, StillLater
    <3>4. wanted' = w
      BY <1>2, <3>1
    <3> QED
      BY <3>3, <3>4 DEF CorrectedLater, NumOf, PartsOf
  <2>5. CASE TakeAndJump(i)
    <3>1. /\ UNCHANGED can_decode /\ pc' = "header" /\ corr' = corr /\ ~ Completes(Part(i))
          /\ at' = start'[wanted][Part(i).part + 1] /\ JumpsToNext(Part(i))
          /\ state' = "TPHSOT"
      BY <2>2, <2>3, <2>5 DEF TakeAndJump
    <3>3. at' \in 1..N
      BY <2>2, <3>1, JumpType DEF IInv
    <3>4. tlm_ok' /\ Part(i).part + 1 < nb_tps'[wanted]
      BY <2>2, <3>1 DEF JumpsToNext
    <3>5. Part(at').tile = wanted /\ Part(at').part = Part(i).part + 1
      <4>1. /\ nb_tps'[wanted] <= N /\ start'[wanted] # NoIndex /\ nb_tps'[wanted] \in Nat
        BY <1>3, <1>5, <3>4 DEF IInv, IndexInv, Types, TypeOK
      <4>2. Part(i).part + 1 \in 0..N
        BY <1>3, <2>3, <3>4, <4>1
      <4>3. PartNumbers(stream') = 0..N
        BY <1>5 DEF PartNumbers, N
      <4>4. start'[wanted][Part(i).part + 1] # Unset
        BY <1>3, <3>1, <3>3 DEF Unset
      <4> QED
        BY <1>3, <1>4, <1>5, <3>1, <4>1, <4>2, <4>3, <4>4 DEF IndexRight
    <3>6. PICK a \in 1..N : a = at'
      BY <3>3
    <3>7. Part(a).tile = wanted /\ Part(a).part = Part(i).part + 1
      BY <3>5, <3>6
    <3>8. ASSUME NEW j \in 1..N, Part(j).tile = wanted
          PROVE  Part(j).part > Part(i).part <=> j >= a
      <4>1. Part(j).part \in Nat /\ Part(i).part \in Nat
        BY <1>3
      <4>2. /\ Part(a).part < Part(j).part => a < j
            /\ a < j => Part(a).part < Part(j).part
            /\ Part(a).part = Part(j).part => a = j
        BY <1>3, <1>4, <3>7, <3>8, OrderOf
      <4>3. Part(j).part > Part(i).part <=> Part(a).part < Part(j).part \/ Part(a).part = Part(j).part
        BY <3>7, <4>1
      <4>4. j >= a <=> a < j \/ a = j
        BY <1>3
      <4> QED
        BY <4>2, <4>3, <4>4
    <3>9. Synced(wanted)' /\ at' <= N'
      BY <1>2, <1>3, <1>5, <2>3, <3>6, <3>8 DEF Synced
    <3>10. PositionInv' /\ WholeInv'
      BY <1>2, <2>3, <2>4, <3>1, <3>4, <3>9 DEF PositionInv, WholeInv
    <3> QED
      BY <2>3, <3>10
  <2>6. CASE TakeAndGoOn(i)
    <3>1. /\ corr' = corr /\ can_decode' = can_decode /\ ~ Completes(Part(i))
          /\ NextMarker(i, Part(i).tile, "TPHSOT")
      BY <2>3, <2>6 DEF TakeAndGoOn
    <3> QED
      BY <1>9, <2>2, <2>3, <2>4, <3>1
  <2>7. CASE TakeAndCorrect(i)
    <3>1. /\ can_decode' = can_decode /\ corr' = 1
          /\ NextMarker(i, Part(i).tile, "TPHSOT")
      BY <2>3, <2>7 DEF TakeAndCorrect
    <3>2. CorrectedLater(wanted)'
      BY <3>1 DEF CorrectedLater
    <3> QED
      BY <1>9, <2>2, <2>3, <3>1, <3>2
  <2>8. CASE TakeLast(i)
    <3>1. /\ can_decode' = TRUE /\ tile' = wanted /\ state' = "TPHSOT" /\ at' = i + 1
          /\ pc' = "found" /\ Completes(Part(i)) /\ ~ NeedsCorrection(i)
      BY <2>2, <2>3, <2>8 DEF TakeLast
    <3>2. Part(i).part + 1 = NumOf(wanted)
      BY <1>4, <2>2, <2>3, <3>1, LastIsLast DEF IInv
    <3>3. at' <= last_sot' + 1
      <4>1. PICK l \in 0..N : l = last_sot'
        BY <1>8
      <4>2. i <= l
        BY <2>3, <4>1
      <4>3. i + 1 <= l + 1
        BY <1>3, <4>2
      <4> QED
        BY <3>1, <4>1, <4>3
    <3>4. PositionInv'
      BY <2>3, <3>1, <3>3 DEF PositionInv
    <3>5. \A j \in 1..N : ~ (Part(j).tile = wanted /\ Part(j).part > part_no'[wanted])
      <4> SUFFICES ASSUME NEW j \in 1..N, Part(j).tile = wanted PROVE ~ (Part(j).part > Part(i).part)
        BY <2>3
      <4>1. Part(j).part \in 0..(NumOf(wanted) - 1) /\ NumOf(wanted) \in Nat
        BY <1>3, <1>4, OrderFacts
      <4> QED
        BY <2>3, <3>2, <4>1
    <3>6. Whole(wanted)'
      BY <1>1, <1>2, <1>3, <1>4, <3>1, <3>5, WholeAtEnd
    <3>7. WholeInv'
      BY <1>2, <3>1, <3>6 DEF WholeInv, Whole
    <3> QED
      BY <2>3, <3>4, <3>7
  <2> QED
    BY <1>16, <2>5, <2>6, <2>7, <2>8
<1> QED
  BY <1>10, <1>11, <1>14, <1>15, <1>16 DEF PartNext

-----------------------------------------------------------------------------
(***************************************************************************)
(* Asking for a tile: the other steps                                      *)
(***************************************************************************)
\* The beginning of a call, which never fails.
LEMMA CallAccess ==
  ASSUME IInv, IndexRight, RandomAccess, MetInv, PositionInv, NEW t \in Tiles, GetTile(t)
  PROVE  MetInv' /\ PositionInv' /\ WholeInv' /\ pc' = "header"
<1> USE DEF fileVars, planVars, tileVars, indexVars, apiVars
<1>1. /\ pc = "idle" /\ used \in {"new", "tiles"} /\ wanted' = t /\ at' = SeekTile(t)
      /\ state' = NextState /\ part_no' = [u \in Tiles |-> -1]
      /\ UNCHANGED <<fileVars, tile, can_decode, corr, checked, plan, data, nb_parts, nb_tps,
                     start, last_sot, tlm_ok>>
  BY DEF GetTile, MayGetTile, ResetPartNumbers
<1>2. /\ stream \in Streams /\ NoPsot0 /\ Ordered /\ N \in Nat /\ state \in {"TPHSOT", "EOC", "NEOC"}
      /\ last_sot \in 0..N /\ 0 \in Tiles
  BY TypesOf, StreamFacts, AccessFacts DEF IInv
<1>3. /\ N' = N /\ Tiles' = Tiles /\ Conformant' = Conformant /\ OffByOne' = OffByOne
      /\ (\A k : Part(k)' = Part(k)) /\ (\A u : NumOf(u)' = NumOf(u))
  BY <1>1, SameStream
<1>4. /\ SeekTile(t) \in 1..N
      /\ \A i \in 1..N : Part(i).tile = t => i >= SeekTile(t)
      /\ ~ tlm_ok => SeekTile(t) <= last_sot + 1
  BY <1>1, SeekAhead
<1>5. state' = "TPHSOT"
  <2>1. ASSUME state = "EOC", start[0] = NoIndex PROVE FALSE
    <3>1. ~ tlm_ok
      BY <1>2, <2>1 DEF IInv, IndexInv
    <3>2. last_sot = N
      BY <2>1, <3>1 DEF PositionInv
    <3>3. 0 \in 0..(NumOf(0) - 1)
      BY <1>2, OrderFacts
    <3>4. PICK j \in 1..N : Part(j).tile = 0 /\ Part(j).part = 0
      BY <1>2, <3>3, PartThere
    <3>5. nb_tps[0] > 0
      BY <3>1, <3>2, <3>4 DEF MetInv
    <3> QED
      BY <1>2, <2>1, <3>5 DEF IInv, IndexInv
  <2> QED
    BY <1>1, <1>2, <2>1 DEF NextState, PositionInv
<1>6. pc' = "header"
  <2>1. at' # Unset
    BY <1>1, <1>2, <1>4 DEF Unset
  <2>2. IF at' = Unset THEN pc' = "failed" ELSE EnterHeader(state')
    BY DEF GetTile
  <2> QED
    BY <1>5, <2>1, <2>2 DEF EnterHeader
<1>7. MetInv'
  BY <1>1, <1>3 DEF MetInv
<1>8. PositionInv'
  <2>1. Synced(t)'
    <3> SUFFICES ASSUME NEW i \in 1..N, Part(i).tile = t
                 PROVE  Part(i).part > part_no'[t] <=> i >= at'
      BY <1>3 DEF Synced
    <3>1. Part(i).part \in Nat
      BY <1>2, StreamFacts
    <3> QED
      BY <1>1, <1>4, <3>1
  <2>2. CorrectedLater(t)'
    <3>1. OffByOne => NumOf(t) > 2 /\ NumOf(t) \in Nat
      BY <1>2, NumOfBound DEF OffByOne
    <3> QED
      BY <1>1, <1>3, <3>1 DEF CorrectedLater
  <2>3. plan' = <<>> /\ at' \in 1..N
    BY <1>1, <1>4 DEF PositionInv
  <2>4. Synced(wanted)' /\ CorrectedLater(wanted)'
    BY <1>1, <2>1, <2>2 DEF Synced, CorrectedLater, NumOf, PartsOf
  <2> QED
    BY <1>1, <1>2, <1>3, <1>4, <1>5, <1>6, <2>3, <2>4 DEF PositionInv
<1>9. WholeInv'
  BY <1>6 DEF WholeInv
<1> QED
  BY <1>6, <1>7, <1>8, <1>9

\* After the loop the tile is decoded, and any other can be asked for.
LEMMA TileAccess ==
  ASSUME IInv, RandomAccess, MetInv, PositionInv, WholeInv, wanted # -1, TileNext
  PROVE  /\ Usable' => MetInv' /\ PositionInv' /\ WholeInv'
         /\ pc' # "failed"
<1> USE DEF fileVars, planVars, tileVars, indexVars, apiVars
<1>1. UNCHANGED <<fileVars, corr, checked, nb_parts, part_no, nb_tps, start, last_sot, tlm_ok,
                  wanted, plan>>
  BY DEF TileNext, FindTile, NoTile, DecodeFails, DecodeBroken, MarkerFails, FastTile,
         AreaTile, WantedTile, OtherTile, DecodesTile, Fail
<1>2. /\ stream \in Streams /\ wanted \in Tiles /\ tile \in Tiles /\ Types
      /\ \A t \in Tiles : t \in Nat
      /\ N \in Nat \ {0} /\ last_sot \in 0..N /\ at \in 0..(N + 1)
  BY TypesOf, StreamFacts DEF IInv, Tiles
<1>3. /\ N' = N /\ Tiles' = Tiles /\ Conformant' = Conformant /\ OffByOne' = OffByOne
      /\ (\A k : Part(k)' = Part(k)) /\ (\A t : NumOf(t)' = NumOf(t) /\ PartsOf(t)' = PartsOf(t))
  BY <1>1, SameStream
<1>4. MetInv'
  BY <1>1, <1>3 DEF MetInv
<1>5. /\ op = "tile" /\ area.from = wanted /\ area.to = wanted + 1
      /\ pc \in {"found", "decode"} => image = <<>>
  BY DEF IInv, ModeInv, InCall
<1>6. /\ Ordered /\ stream.eoc /\ \A t \in Tiles : InOrder(t) /\ (data[t] # <<>> => t = wanted)
  <2>1. Ordered /\ NoPsot0 /\ stream.eoc
    BY <1>2, AccessFacts DEF Conformant, OffByOne
  <2>2. ASSUME NEW t \in Tiles, data[t] # <<>> PROVE t = wanted
    <3>1. InArea(t)
      BY <2>1, <2>2 DEF IInv, Book
    <3> QED
      BY <1>2, <1>5, <3>1 DEF InArea
  <2> QED
    BY <2>1, <2>2 DEF IInv, Book
<1>7. pc \in {"found", "decode"} => data[wanted] = PartsOf(wanted) /\ data[wanted] # <<>>
  BY <1>2, <1>6, WholeTile DEF WholeInv
<1>8. CASE FindTile
  <2>1. /\ pc = "found" /\ pc' = "decode" /\ data' = data /\ TileFound /\ state' = state
        /\ at' = at /\ tile' = (IF can_decode THEN tile ELSE Min(Candidates))
    BY <1>8 DEF FindTile
  <2>2. tile' = wanted
    <3>1. CASE can_decode
      BY <2>1, <3>1 DEF WholeInv
    <3>2. CASE ~ can_decode
      <4>1. Candidates # {} /\ Candidates \in SUBSET Nat
        BY <1>2, <2>1, <3>2 DEF TileFound, Candidates
      <4>2. Min(Candidates) \in Candidates
        BY <4>1, MinIn
      <4> QED
        BY <1>6, <2>1, <3>2, <4>2 DEF Candidates
    <3> QED
      BY <3>1, <3>2
  <2>3. PositionInv'
    BY <1>1, <1>3, <2>1 DEF PositionInv
  <2>4. WholeInv'
    BY <1>1, <1>3, <2>1, <2>2 DEF WholeInv, Whole
  <2> QED
    BY <1>4, <2>1, <2>3, <2>4
<1>9. CASE NoTile
  <2>1. pc = "found" /\ ~ can_decode /\ Candidates = {}
    BY <1>9 DEF NoTile, TileFound
  <2>2. tile = 0 /\ data[wanted] # <<>>
    BY <1>7, <2>1 DEF PositionInv
  <2> QED
    BY <1>2, <2>1, <2>2 DEF Candidates
<1>10. pc = "decode" => ~ Apart(tile) /\ tile = wanted /\ InArea(tile)
  BY <1>2, <1>5 DEF WholeInv, Apart, InArea
<1>11. CASE DecodeFails \/ MarkerFails
  BY <1>6, <1>10, <1>11 DEF DecodeFails, MarkerFails, NoMarker
<1>12. CASE DecodeBroken
  BY <1>12 DEF DecodeBroken, Usable
<1>13. CASE FastTile \/ AreaTile \/ OtherTile
  BY <1>5, <1>10, <1>13 DEF FastTile, AreaTile, OtherTile, DecodesTile
<1>14. CASE WantedTile
  <2>1. /\ pc = "decode" /\ tile = wanted /\ at' = 1 /\ Return(image')
        /\ image' = IF InArea(tile) THEN Append(image, [tile |-> tile, data |-> data[tile]])
                                    ELSE image
        /\ state' = IF MeetsEOC THEN "EOC" ELSE state
    BY <1>14 DEF WantedTile, DecodesTile
  <2>2. image' = <<[tile |-> wanted, data |-> PartsOf(wanted)]>>
    BY <1>5, <1>7, <1>10, <2>1
  <2>3. pc' = "idle"
    <3>1. image' # <<>>
      BY <2>2
    <3> QED
      BY <2>1, <3>1 DEF Return
  <2>4. ~ tlm_ok /\ state' = "EOC" => last_sot = N
    BY <1>2, <2>1 DEF MeetsEOC, PositionInv
  <2>5. PositionInv'
    BY <1>1, <1>2, <1>3, <2>1, <2>3, <2>4 DEF PositionInv
  <2>6. WholeInv'
    BY <1>1, <1>3, <2>2, <2>3 DEF WholeInv, PartsOf
  <2> QED
    BY <1>4, <2>3, <2>5, <2>6
<1> QED
  BY <1>8, <1>9, <1>11, <1>12, <1>13, <1>14 DEF TileNext

\* No SOT is refused, and none is missing.
LEMMA PartSucceeds ==
  ASSUME IInv, RandomAccess, NumbersInv, PositionInv, wanted # -1, CorrectedInTime, PartNext
  PROVE  pc' # "failed"
<1>1. /\ stream \in Streams /\ N \in Nat \ {0} /\ wanted \in Tiles /\ Types
      /\ at \in 0..(N + 1) /\ part_no \in [Tiles -> Nat \cup {-1}]
      /\ \A j \in 1..N : Part(j).tile \in Tiles /\ Part(j).part \in Nat
      /\ \A t \in Tiles : t \in Nat
  <2>1. \A t \in Tiles : t \in Nat
    BY DEF Tiles
  <2> QED
    BY <2>1, TypesOf, StreamFacts DEF IInv
<1>2. Ordered /\ NoPsot0 /\ (Truthful \/ OffByOne) /\ stream.eoc /\ ~ stream.cut
  <2>1. Ordered /\ NoPsot0 /\ Regular
    BY <1>1, AccessFacts
  <2>2. (Truthful \/ OffByOne) /\ stream.eoc
    BY <2>1 DEF Regular, Conformant, OffByOne, Truthful
  <2> QED
    BY <1>1, <2>1, <2>2, NotCut
<1>3. /\ pc # "sod" /\ plan = <<>>
      /\ AtSot => at \in 1..N /\ Here = at /\ Synced(wanted) /\ CorrectedLater(wanted)
  <2>1. pc # "sod" /\ plan = <<>>
    BY <1>2 DEF IInv, Book, Usable, Found, PositionInv
  <2>2. AtSot => at > 0
    BY DEF IInv, CallInv, AtSot
  <2> QED
    BY <1>1, <2>1, <2>2 DEF AtSot, PositionInv, Here
<1>4. AtSot => ~ SotRefused(Part(Here))
  <2> SUFFICES ASSUME AtSot PROVE ~ SotRefused(Part(at))
    BY <1>3
  <2>1. \A t \in Tiles : InArea(t) <=> t = wanted
    BY <1>1 DEF IInv, ModeInv, InArea
  <2>2. at \in 1..N /\ Synced(wanted) /\ CorrectedLater(wanted)
    BY <1>3
  <2>3. Part(at).tile = wanted => Part(at).part = part_no[wanted] + 1
    <3> SUFFICES ASSUME Part(at).tile = wanted PROVE Part(at).part = part_no[wanted] + 1
      OBVIOUS
    <3>1. PICK m \in Nat \cup {-1} : m = part_no[wanted]
      BY <1>1
    <3>2. \A j \in 1..N : Part(j).tile = Part(at).tile => (Part(j).part > m <=> j >= at)
      BY <2>2, <3>1 DEF Synced
    <3> QED
      BY <1>1, <1>2, <2>2, <3>1, <3>2, NextPart
  <2>4. ~ OutOfOrder(Part(at))
    BY <1>1, <2>2, <2>3 DEF OutOfOrder
  <2>5. \A j \in 1..(at - 1) : InArea(Part(j).tile) => Part(j).part <= part_no[Part(j).tile]
    <3> SUFFICES ASSUME NEW j \in 1..(at - 1), InArea(Part(j).tile)
                 PROVE  Part(j).part <= part_no[wanted] /\ Part(j).tile = wanted
      OBVIOUS
    <3>1. j \in 1..N /\ ~ (j >= at)
      BY <1>1, <2>2
    <3>2. Part(j).tile = wanted
      BY <1>1, <2>1, <3>1
    <3>3. ~ (Part(j).part > part_no[wanted])
      BY <2>2, <3>1, <3>2 DEF Synced
    <3> QED
      BY <1>1, <3>1, <3>2, <3>3
  <2>6. InArea(Part(at).tile) => Part(at).part = part_no[Part(at).tile] + 1
    BY <1>1, <2>1, <2>2, <2>3
  <2>7. \A t \in Tiles : InArea(t) => CorrectedLater(t)
    BY <2>1, <2>2
  <2> QED
    BY <1>1, <1>2, <2>2, <2>4, <2>5, <2>6, <2>7, SotAccepted
<1>5. ASSUME NEW i \in 1..N, NEW t, NEW s, NextMarker(i, t, s) PROVE pc' # "failed"
  <2>1. i < N \/ i = N
    BY <1>1
  <2> QED
    BY <1>1, <1>2, <1>5, <2>1, MarkerPlace
<1>6. CASE SkipPart
  <2>1. AtSot /\ NextMarker(Here, Part(Here).tile, "TPHSOT")
    BY <1>6 DEF SkipPart
  <2> QED
    BY <1>3, <1>5, <2>1
<1>7. ASSUME NEW i \in 1..N, TakeAndJump(i) \/ TakeAndGoOn(i) \/ TakeLast(i) \/ TakeAndCorrect(i)
      PROVE  pc' # "failed"
  <2>1. CASE TakeAndJump(i) \/ TakeLast(i)
    BY <2>1 DEF TakeAndJump, TakeLast
  <2>2. CASE TakeAndGoOn(i) \/ TakeAndCorrect(i)
    <3>1. AtSot /\ ReadSot(i)
      BY <2>2 DEF TakeAndGoOn, TakeAndCorrect, Takes
    <3>2. AfterSod(i) = i
      BY <1>2, <3>1, SodEnds
    <3> QED
      BY <1>5, <2>2, <3>2 DEF TakeAndGoOn, TakeAndCorrect
  <2> QED
    BY <1>7, <2>1, <2>2
<1>8. CASE SotFails \/ SkipFails \/ SodFails
  BY <1>2, <1>4, <1>8 DEF SotFails, SkipFails, SodFails, IsCut
<1>9. CASE HeaderEnds \/ SkipNothing \/ TakeUnwanted
  BY <1>3, <1>9 DEF HeaderEnds, SkipNothing, TakeUnwanted
<1> QED
  BY <1>6, <1>7, <1>8, <1>9 DEF PartNext

\* Only opj_get_decoded_tile leaves the application asking for tiles.
LEMMA StillAsking ==
  ASSUME Next, used' \in {"new", "tiles"}, Usable'
  PROVE  \/ \E t \in Tiles : GetTile(t)
         \/ (PartNext \/ TileNext) /\ used' = used /\ InCall
         \/ UNCHANGED vars
<1> USE DEF fileVars, planVars, tileVars, indexVars, apiVars
<1>1. CASE CallNext
  <2>1. ~ (SetArea \/ SetAreaFails \/ DecodeFast \/ DecodeKept \/ DecodeArea)
    BY DEF SetArea, SetAreaFails, DecodeFast, DecodeKept, DecodeArea, BeginDecode, Usable
  <2> QED
    BY <1>1, <2>1 DEF CallNext
<1>2. CASE PartNext \/ TileNext
  <2>1. used' = used /\ pc \in {"header", "sod", "found", "decode"}
    BY <1>2 DEF PartNext, HeaderEnds, SotFails, SkipNothing, SkipPart, SkipFails, SodFails,
         TakeAndJump, TakeAndGoOn, TakeLast, TakeAndCorrect, TakeUnwanted, Fail, Takes, AtSot,
         TileNext, FindTile, NoTile, DecodeFails, DecodeBroken, MarkerFails, FastTile,
         AreaTile, WantedTile, OtherTile, DecodesTile
  <2> QED
    BY <1>2, <2>1 DEF InCall
<1>3. CASE Over
  BY <1>3 DEF Over
<1> QED
  BY <1>1, <1>2, <1>3 DEF Next

\* Every step keeps what asking for a tile relies on.
LEMMA AccessNext ==
  ASSUME IInv, IndexRight, NumbersInv, Access, [Next]_vars
  PROVE  Access'
<1> SUFFICES ASSUME Asking' PROVE MetInv' /\ PositionInv' /\ WholeInv'
  BY DEF Access
<1>1. IInv' /\ IndexRight'
  BY InvNext, IndexRightNext
<1>2. RandomAccess /\ used' \in {"new", "tiles"} /\ Usable'
  BY FileKept, SameStream DEF Asking
<1>3. CASE UNCHANGED vars
  <2>1. UNCHANGED <<stream, mode, exact, state, at, tile, can_decode, corr, plan, data,
                    part_no, nb_tps, start, last_sot, tlm_ok, wanted, pc, image, used>>
    BY <1>3 DEF vars, fileVars, planVars, tileVars, indexVars, apiVars
  <2>2. MetInv /\ PositionInv /\ WholeInv
    BY <1>2, <2>1 DEF Access, Asking, Usable
  <2>3. /\ N' = N /\ Tiles' = Tiles /\ Conformant' = Conformant /\ OffByOne' = OffByOne
        /\ (\A k : Part(k)' = Part(k))
        /\ (\A t : NumOf(t)' = NumOf(t) /\ PartsOf(t)' = PartsOf(t))
    BY FileKept, SameStream
  <2>4. MetInv'
    BY <2>1, <2>2, <2>3 DEF MetInv
  <2>5. PositionInv'
    BY <2>1, <2>2, <2>3 DEF PositionInv, Synced, CorrectedLater
  <2>6. WholeInv'
    BY <2>1, <2>2, <2>3 DEF WholeInv, Whole
  <2> QED
    BY <2>4, <2>5, <2>6
<1>4. CASE \E t \in Tiles : GetTile(t)
  <2>1. pc = "idle" /\ used \in {"new", "tiles"}
    BY <1>4 DEF GetTile, MayGetTile
  <2>2. MetInv /\ PositionInv
    BY <1>2, <2>1 DEF Access, Asking, Usable
  <2> QED
    BY <1>2, <1>4, <2>1, <2>2, CallAccess
<1>5. CASE (PartNext \/ TileNext) /\ used' = used /\ InCall
  <2>1. MetInv /\ PositionInv /\ WholeInv
    BY <1>2, <1>5 DEF Access, Asking, Usable, InCall
  <2>2. wanted # -1
    BY <1>2, <1>5 DEF IInv, ModeInv
  <2> QED
    BY <1>1, <1>2, <1>5, <2>1, <2>2, PartAccess, TileAccess
<1> QED
  BY <1>2, <1>3, <1>4, <1>5, StillAsking

\* Whatever tiles are asked for, in whatever order and however often: what is given
\* is the tile asked for, with all of its tile-parts in their order, however those of
\* the tiles are interleaved and whether or not TLM markers or an index lead to them,
\* also where TNsot is one short in the whole codestream (opj_j2k_get_tile,
\* opj_j2k_read_tile_header, opj_j2k_need_nb_tile_parts_correction).
THEOREM TileCorrect == Spec => []TileExact
<1>1. IInv /\ NumbersInv /\ [Next]_vars => NumbersInv'
  BY NumbersNext
<1>2. IInv /\ IndexRight /\ [Next]_vars => IndexRight'
  BY IndexRightNext
<1>3. IInv /\ IndexRight /\ NumbersInv /\ Access /\ [Next]_vars => Access'
  BY AccessNext
<1>4. IInv /\ Access => TileExact
  <2> SUFFICES ASSUME IInv, Access, pc = "idle", used = "tiles", RandomAccess
               PROVE  image = <<[tile |-> wanted, data |-> PartsOf(wanted)]>>
    BY DEF TileExact
  <2>1. wanted # -1
    BY DEF IInv, ModeInv
  <2> QED
    BY <2>1 DEF Access, Asking, Usable, WholeInv
<1> QED
  BY Invariant, InitNumbers, InitIndexRight, InitAccess, <1>1, <1>2, <1>3, <1>4, PTL DEF Spec

\* No call of opj_get_decoded_tile fails, if the headers of the other tiles let it
\* correct TNsot in time.
LEMMA AskingSucceeds ==
  ASSUME IInv, IndexRight, NumbersInv, Access, RandomAccess, CorrectedInTime', Next,
         used' = "tiles", pc # "failed"
  PROVE  pc' # "failed"
<1> USE DEF fileVars, planVars, tileVars, indexVars, apiVars
<1> SUFFICES ASSUME pc' = "failed" PROVE FALSE
  OBVIOUS
<1>1. CASE CallNext
  <2>1. PICK t \in Tiles : GetTile(t)
    BY <1>1 DEF CallNext, SetArea, SetAreaFails, DecodeFast, DecodeKept, DecodeArea, BeginDecode
  <2>2. pc = "idle" /\ used \in {"new", "tiles"}
    BY <2>1 DEF GetTile, MayGetTile
  <2>3. MetInv /\ PositionInv
    BY <2>2 DEF Access, Asking, Usable
  <2> QED
    BY <2>1, <2>2, <2>3, CallAccess
<1>2. CASE PartNext \/ TileNext
  <2>1. /\ UNCHANGED apiVars /\ pc \in {"header", "sod", "found", "decode"}
    BY <1>2 DEF PartNext, HeaderEnds, SotFails, SkipNothing, SkipPart, SkipFails, SodFails,
         TakeAndJump, TakeAndGoOn, TakeLast, TakeAndCorrect, TakeUnwanted, Fail, Takes, AtSot,
         TileNext, FindTile, NoTile, DecodeFails, DecodeBroken, MarkerFails, FastTile,
         AreaTile, WantedTile, OtherTile, DecodesTile
  <2>2. MetInv /\ PositionInv /\ WholeInv /\ wanted # -1
    BY <2>1 DEF Access, Asking, Usable, IInv, ModeInv
  <2>3. CorrectedInTime
    <3>1. UNCHANGED fileVars
      BY FileKept
    <3>2. OffByOne' = OffByOne /\ N' = N /\ (\A i : Part(i)' = Part(i)) /\ area' = area
      BY <2>1, <3>1, SameStream
    <3> QED
      BY <3>2 DEF CorrectedInTime, InArea
  <2> QED
    BY <1>2, <2>2, <2>3, PartSucceeds, TileAccess
<1>3. CASE Over
  BY <1>3 DEF Over, vars
<1> QED
  BY <1>1, <1>2, <1>3 DEF Next

-----------------------------------------------------------------------------
(***************************************************************************)
(* Before opj_decode                                                       *)
(***************************************************************************)
\* Before the first call nothing has been read.
LEMMA InitFresh == Init => FreshInv
<1> SUFFICES ASSUME Init PROVE FreshInv
  OBVIOUS
<1>1. /\ at = 1 /\ state = "TPHSOT" /\ ~ can_decode /\ ~ last_part /\ plan = <<>> /\ ~ planned
      /\ tlm_ok = TlmValid(stream)
  BY DEF Init
<1>2. tlm_ok => stream.tlm # <<>>
  BY <1>1 DEF TlmValid
<1> QED
  BY <1>1, <1>2, InitMet DEF FreshInv

\* The plan of an area is made for less than the image.
LEMMA PlanOfSingle ==
  ASSUME Types, Single
  PROVE  PlanOfArea = <<>>
<1>1. area \in Areas
  BY TypesOf
<1>2. area.from = 0 /\ area.to = stream.tiles
  BY <1>1, SingleArea DEF Areas, Single, Tiles
<1> QED
  BY <1>2 DEF PlanOfArea

\* Nothing is read before the first call of opj_decode.
LEMMA FreshNext ==
  ASSUME IInv, FreshInv, [Next]_vars
  PROVE  FreshInv'
<1> USE DEF fileVars, planVars, tileVars, indexVars, apiVars
<1>1. UNCHANGED fileVars
  BY FileKept
<1>2. /\ Tiles' = Tiles /\ Single' = Single /\ Conformant' = Conformant /\ stream' = stream
      /\ (\A t : NumOf(t)' = NumOf(t))
  BY <1>1, SameStream
<1>3. CASE UNCHANGED <<tlm_ok, nb_tps, used, at, state, can_decode, last_part>>
           /\ (UNCHANGED planVars \/ ~ Fresh') /\ (Single => ~ planned')
  BY <1>2, <1>3 DEF FreshInv, Fresh
<1>4. CASE CallNext
  <2>1. CASE SetArea
    <3>1. UNCHANGED <<tlm_ok, nb_tps, at, state, can_decode, last_part, plan, planned>>
      BY <2>1 DEF SetArea
    <3>2. Fresh' => Fresh
      BY <1>2, <2>1 DEF SetArea, MaySetArea, Fresh
    <3> QED
      BY <1>2, <3>1, <3>2 DEF FreshInv
  <2>2. CASE SetAreaFails
    BY <1>3, <2>2 DEF SetAreaFails, FreshInv
  <2>3. CASE DecodeFast \/ DecodeKept \/ DecodeArea \/ \E t \in Tiles : GetTile(t)
    <3>1. ~ Fresh' /\ tlm_ok' = tlm_ok
      BY <2>3 DEF DecodeFast, DecodeKept, DecodeArea, GetTile, BeginDecode, Fresh
    <3>2. Single => ~ planned'
      <4>1. CASE DecodeFast \/ DecodeKept \/ \E t \in Tiles : GetTile(t)
        BY <4>1 DEF DecodeFast, DecodeKept, GetTile, FreshInv
      <4>2. CASE DecodeArea
        BY <4>2, PlanOfSingle DEF DecodeArea, IInv
      <4> QED
        BY <2>3, <4>1, <4>2
    <3> QED
      BY <1>2, <3>1, <3>2 DEF FreshInv
  <2> QED
    BY <1>4, <2>1, <2>2, <2>3 DEF CallNext
<1>5. CASE PartNext \/ TileNext
  <2>1. InCall /\ used' = used
    BY <1>5 DEF PartNext, HeaderEnds, SotFails, SkipNothing, SkipPart, SkipFails, SodFails,
         TakeAndJump, TakeAndGoOn, TakeLast, TakeAndCorrect, TakeUnwanted, Fail, Takes, AtSot,
         TileNext, FindTile, NoTile, DecodeFails, DecodeBroken, MarkerFails, FastTile,
         AreaTile, WantedTile, OtherTile, DecodesTile, InCall
  <2>2. ~ Fresh'
    <3>1. used \in {"decoded", "tiles"}
      BY <2>1 DEF IInv, ModeInv
    <3> QED
      BY <2>1, <3>1 DEF Fresh
  <2>3. planned' = planned /\ (tlm_ok' => tlm_ok)
    <3>1. ASSUME NEW i, ReadSot(i) PROVE planned' = planned /\ (tlm_ok' => tlm_ok)
      BY <3>1 DEF ReadSot, Index, Jump
    <3>2. CASE \E i : ReadSot(i)
      BY <3>1, <3>2
    <3>3. CASE UNCHANGED <<planned, tlm_ok>>
      BY <3>3
    <3>4. (\E i : ReadSot(i)) \/ UNCHANGED <<planned, tlm_ok>>
      BY <1>5 DEF PartNext, HeaderEnds, SotFails, SkipNothing, SkipPart, SkipFails, SodFails,
           TakeAndJump, TakeAndGoOn, TakeLast, TakeAndCorrect, TakeUnwanted, Fail, Takes,
           TileNext, FindTile, NoTile, DecodeFails, DecodeBroken, MarkerFails,
           FastTile, AreaTile, WantedTile, OtherTile, DecodesTile
    <3> QED
      BY <3>2, <3>3, <3>4
  <2> QED
    BY <1>2, <2>2, <2>3 DEF FreshInv
<1>6. CASE Over \/ UNCHANGED vars
  <2>1. UNCHANGED <<tlm_ok, nb_tps, used, at, state, can_decode, last_part, plan, planned>>
    BY <1>6 DEF Over, vars
  <2> QED
    BY <1>3, <2>1 DEF FreshInv
<1> QED
  BY <1>4, <1>5, <1>6 DEF Next

\* What is assumed of the codestream where areas are decoded.
LEMMA SoundFacts ==
  ASSUME stream \in Streams, Sound
  PROVE  /\ Ordered /\ (Truthful \/ OffByOne) /\ ~ stream.cut
         /\ stream.eoc \/ Spot6
         /\ stream.tlm # <<>> => Conformant /\ stream.eoc
         /\ planned /\ stream.tlm # <<>> => LastKnown
         /\ \A i \in 1..N : Part(i).psot0 => InArea(Part(i).tile) /\ i = N
<1>1. \A i \in 1..N : Part(i).tile \in Tiles /\ Part(i).psot0 \in BOOLEAN
  BY StreamFacts
<1>2. \A i \in 1..N : Part(i).psot0 => i = N
  <2>1. StreamOK(stream)
    BY DecoderAssumption
  <2>2. \A i \in 1..N : stream.parts[i].psot0 => i = N
    BY <2>1, Zenon DEF StreamOK, N
  <2> QED
    BY <2>2 DEF Part
<1>3. CASE Conformant /\ Psot0InArea /\ (planned => LastKnown)
  <2>1. ~ stream.cut /\ stream.eoc /\ Truthful /\ Ordered
    BY <1>3, NotCut DEF Conformant, Truthful
  <2> QED
    BY <1>2, <1>3, <2>1 DEF Psot0InArea
<1>4. CASE OffByOne
  <2>1. ~ stream.cut /\ stream.eoc /\ Ordered /\ stream.tlm = <<>> /\ NoPsot0
    BY <1>4, NotCut DEF OffByOne
  <2> QED
    BY <1>4, <2>1 DEF NoPsot0
<1>5. CASE Spot6
  <2>1. /\ Ordered /\ ~ stream.cut /\ stream.tlm = <<>> /\ NoPsot0
        /\ \A i \in 1..N : Part(i).tile = i - 1 /\ Part(i).num \in {0, 1}
    BY <1>5 DEF Spot6
  <2>2. ASSUME NEW i \in 1..N PROVE NumOf(Part(i).tile) = 1
    <3>1. PICK u \in Tiles : u = Part(i).tile
      BY <1>1
    <3>2. NumOf(u) \in Nat \ {0}
      BY <2>1, OrderFacts
    <3>3. ASSUME NumOf(u) # 1 PROVE FALSE
      <4>1. 0 \in 0..(NumOf(u) - 1) /\ 1 \in 0..(NumOf(u) - 1)
        BY <3>2, <3>3
      <4>2. PICK j \in 1..N : Part(j).tile = u /\ Part(j).part = 0
        BY <2>1, <4>1, PartThere
      <4>3. PICK k \in 1..N : Part(k).tile = u /\ Part(k).part = 1
        BY <2>1, <4>1, PartThere
      <4>4. j = k
        BY <2>1, <4>2, <4>3
      <4> QED
        BY <4>2, <4>3, <4>4
    <3> QED
      BY <3>1, <3>3
  <2>3. Truthful
    BY <2>1, <2>2 DEF Truthful
  <2> QED
    BY <1>5, <2>1, <2>3 DEF NoPsot0
<1> QED
  BY <1>3, <1>4, <1>5 DEF Sound

\* The plan of an area has the tile-parts of its tiles, in their order.
LEMMA PlanRight ==
  ASSUME IInv, IndexRight, FreshInv, Fresh, Sound, NEW q, q = PlanOfArea, q # <<>>
  PROVE  /\ ~ Single /\ stream.tlm # <<>>
         /\ \A j, k \in 1..Len(q) : j < k => q[j] < q[k]
         /\ \A i \in 1..N : (\E k \in 1..Len(q) : q[k] = i) <=> InArea(Part(i).tile)
<1> DEFINE starts(t) == {start[t][p] : p \in 0..(nb_tps[t] - 1)}
           S == UNION {starts(t) : t \in {u \in Tiles : InArea(u)}}
<1>1. /\ nb_tps \in [Tiles -> Nat] /\ stream \in Streams /\ N \in Nat
      /\ start \in [Tiles -> {NoIndex} \cup [PartNumbers(stream) -> 0..N]]
      /\ PartNumbers(stream) = 0..N /\ Types
      /\ \A i \in 1..N : Part(i).tile \in Tiles /\ Part(i).part \in Nat
  BY StreamFacts, TypesOf DEF PartNumbers, N, IInv
<1>2. tlm_ok /\ q = Ascending(S) /\ ~ (area.from = 0 /\ area.to = stream.tiles)
  BY DEF PlanOfArea
<1>3. ~ Single
  <2>1. Single => area.from = 0 /\ area.to = stream.tiles
    <3>1. area \in Areas
      BY TypesOf DEF IInv
    <3> QED
      BY <1>1, <3>1, SingleArea DEF Areas, Single, Tiles
  <2> QED
    BY <1>2, <2>1
<1>4. stream.tlm # <<>> /\ Conformant /\ Ordered /\ Regular
      /\ \A t \in Tiles : nb_tps[t] = NumOf(t)
  BY <1>1, <1>2, SoundFacts DEF FreshInv, Regular
<1>5. ASSUME NEW t \in Tiles, NEW p \in 0..(nb_tps[t] - 1)
      PROVE  start[t][p] \in 1..N /\ Part(start[t][p]).tile = t /\ Part(start[t][p]).part = p
  <2>1. nb_tps[t] \in Nat /\ nb_tps[t] <= N /\ start[t] # NoIndex /\ start[t][p] # Unset
    BY <1>1, <1>2 DEF IInv, IndexInv
  <2>2. p \in 0..N
    BY <1>1, <2>1
  <2>3. start[t][p] \in 0..N
    BY <1>1, <2>1, <2>2, IndexAt
  <2>4. Part(start[t][p]).tile = t /\ Part(start[t][p]).part = p
    BY <1>1, <1>4, <2>1, <2>2 DEF IndexRight
  <2>5. PICK s \in 0..N : s = start[t][p]
    BY <2>3
  <2>6. s # 0 /\ N \in Nat
    BY <1>1, <2>1, <2>5 DEF Unset
  <2>7. s \in 1..N
    BY <2>6
  <2> QED
    BY <2>4, <2>5, <2>7
<1>6. \A i \in 1..N : i \in S <=> InArea(Part(i).tile)
  <2> SUFFICES ASSUME NEW i \in 1..N PROVE i \in S <=> InArea(Part(i).tile)
    OBVIOUS
  <2>1. ASSUME i \in S PROVE InArea(Part(i).tile)
    BY <1>5, <2>1
  <2>2. ASSUME InArea(Part(i).tile) PROVE i \in S
    <3>1. PICK u \in Tiles : u = Part(i).tile
      BY <1>1
    <3>2. Part(i).part \in 0..(NumOf(u) - 1)
      BY <1>1, <1>4, <3>1, OrderFacts
    <3>3. PICK p \in 0..(nb_tps[u] - 1) : p = Part(i).part
      BY <1>4, <3>2
    <3>4. start[u][p] \in 1..N /\ Part(start[u][p]).tile = u /\ Part(start[u][p]).part = p
      BY <1>5
    <3>5. start[u][p] = i
      BY <1>1, <1>4, <3>1, <3>3, <3>4, OrderOf
    <3>6. i \in starts(u)
      BY <3>5
    <3> QED
      BY <2>2, <3>1, <3>6
  <2> QED
    BY <2>1, <2>2
<1>7. S \in SUBSET Nat /\ IsFiniteSet(S)
  <2>1. S \in SUBSET (1..N)
    BY <1>5
  <2>2. 1 \in Int /\ N \in Int
    BY <1>1
  <2>3. IsFiniteSet(1..N) /\ Cardinality(1..N) = IF 1 > N THEN 0 ELSE N - 1 + 1
    BY <2>2, FS_Interval, Zenon
  <2> HIDE DEF S
  <2>4. IsFiniteSet(S)
    BY <2>1, <2>3, FS_Subset
  <2> QED
    BY <1>1, <2>1, <2>4
<1> HIDE DEF S
<1>8. /\ q \in Seq(S) /\ Len(q) = Cardinality(S) /\ Cardinality(S) \in Nat
      /\ \A j, k \in 1..Cardinality(S) : j < k => q[j] < q[k]
      /\ \A x \in S : \E k \in 1..Cardinality(S) : q[k] = x
  BY <1>2, <1>7, AscendingSeq
<1>9. \A k \in 1..Len(q) : q[k] \in S
  BY <1>8, ElementOfSeq
<1>10. \A i \in 1..N : (\E k \in 1..Len(q) : q[k] = i) <=> i \in S
  BY <1>8, <1>9
<1> QED
  BY <1>3, <1>4, <1>6, <1>8, <1>10

\* Nothing has been read, and all of it lies ahead.
LEMMA FreshArea ==
  ASSUME IInv, FreshInv, Fresh, Sound, wanted = -1
  PROVE  SyncInv /\ PlanInv /\ PlaceInv /\ DataInv /\ ImageInv /\ IdleInv
<1>1. /\ used \in {"new", "area"} /\ ~ InCall /\ (used = "area" => ~ Single)
      /\ \A t \in Tiles : part_no[t] = -1
  BY DEF Fresh, IInv, ModeInv
<1>2. /\ at = 1 /\ state = "TPHSOT" /\ ~ can_decode /\ ~ last_part /\ plan = <<>> /\ ~ planned
  BY DEF FreshInv
<1>3. /\ N \in Nat \ {0} /\ stream \in Streams /\ Ordered
      /\ \A i \in 1..N : Part(i).part \in Nat
  BY StreamFacts, SoundFacts, TypesOf DEF IInv
<1>4. SyncInv
  <2>1. \A t \in Tiles : Synced(t)
    BY <1>1, <1>2, <1>3 DEF Synced
  <2>2. ASSUME NEW t \in Tiles PROVE CorrectedLater(t)
    <3>1. OffByOne => NumOf(t) > 2 /\ NumOf(t) \in Nat
      BY <1>3, NumOfBound DEF OffByOne
    <3> QED
      BY <1>1, <3>1 DEF CorrectedLater
  <2> QED
    BY <2>1, <2>2 DEF SyncInv
<1>5. pc \notin {"header", "sod", "found", "decode"}
  BY <1>1 DEF InCall
<1>6. PlanInv /\ PlaceInv
  BY <1>2, <1>3, <1>5 DEF PlanInv, PlaceInv
<1>7. DataInv /\ ImageInv
  BY <1>1 DEF DataInv, ImageInv
<1>8. IdleInv
  <2>1. used # "decoded"
    BY <1>1
  <2> QED
    BY <2>1 DEF IdleInv
<1> QED
  BY <1>4, <1>6, <1>7, <1>8

\* What is asked of the codestream does not change with the area or the plan.
LEMMA SoundBefore ==
  ASSUME IInv, FreshInv, FreshInv', Next, Sound', wanted' = -1
  PROVE  /\ wanted = -1
         /\ Sound \/ (SetArea /\ Fresh')
<1> USE DEF fileVars, planVars, tileVars, indexVars, apiVars
<1>1. UNCHANGED fileVars
  BY FileKept
<1>2. /\ Conformant' = Conformant /\ OffByOne' = OffByOne /\ Spot6' = Spot6
      /\ LastKnown' = LastKnown /\ Single' = Single /\ N' = N /\ (\A i : Part(i)' = Part(i))
  BY <1>1, SameStream, SameOrder
<1>3. wanted = -1
  <2>1. CASE \E t \in Tiles : GetTile(t)
    <3>1. PICK t \in Tiles : wanted' = t
      BY <2>1 DEF GetTile
    <3> QED
      BY <3>1 DEF Tiles
  <2>2. (\E t \in Tiles : GetTile(t)) \/ wanted' = wanted
    BY DEF Next, CallNext, SetArea, SetAreaFails, DecodeFast, DecodeKept, DecodeArea,
         BeginDecode, PartNext, HeaderEnds, SotFails, SkipNothing, SkipPart, SkipFails, SodFails,
         TakeAndJump, TakeAndGoOn, TakeLast, TakeAndCorrect, TakeUnwanted, Fail, TileNext,
         FindTile, NoTile, DecodeFails, DecodeBroken, MarkerFails, FastTile, AreaTile,
         WantedTile, OtherTile, DecodesTile, Over, vars
  <2> QED
    BY <2>1, <2>2
<1>4. ASSUME area' = area, planned' = planned \/ ~ planned PROVE Sound
  <2>1. Psot0InArea' = Psot0InArea
    BY <1>2, <1>4 DEF Psot0InArea, InArea
  <2> QED
    BY <1>2, <1>4, <2>1 DEF Sound
<1>5. CASE SetArea
  <2>1. CASE ~ Single
    BY <1>2, <1>5, <2>1 DEF SetArea, Fresh
  <2>2. CASE Single
    <3>1. ~ planned
      BY <2>2 DEF FreshInv
    <3>2. Psot0InArea
      <4>1. area \in Areas /\ stream \in Streams
        BY TypesOf DEF IInv
      <4>2. Tiles = {0} /\ area.from <= 0 /\ 0 < area.to
        BY <2>2, <4>1, SingleArea DEF IInv
      <4>3. \A i \in 1..N : Part(i).tile \in {0}
        BY <4>1, <4>2, StreamFacts
      <4> QED
        BY <4>2, <4>3 DEF Psot0InArea, InArea
    <3> QED
      BY <1>2, <1>3, <3>1, <3>2 DEF Sound
  <2> QED
    BY <1>3, <2>1, <2>2, <1>5
<1>6. CASE DecodeArea
  <2>1. ~ planned
    <3>1. Fresh \/ Single
      <4>1. used \in {"new", "area"}
        BY <1>6 DEF DecodeArea, MayDecode
      <4> QED
        BY <4>1 DEF Fresh
    <3> QED
      BY <3>1 DEF FreshInv
  <2>2. area' = area
    BY <1>6 DEF DecodeArea, BeginDecode
  <2> QED
    BY <1>3, <1>4, <2>1, <2>2
<1>7. CASE SetAreaFails \/ DecodeFast \/ PartNext \/ TileNext \/ Over
  <2>1. area' = area
    BY <1>7 DEF SetAreaFails, DecodeFast,
         BeginDecode, PartNext, HeaderEnds, SotFails, SkipNothing, SkipPart, SkipFails, SodFails,
         TakeAndJump, TakeAndGoOn, TakeLast, TakeAndCorrect, TakeUnwanted, Fail, TileNext,
         FindTile, NoTile, DecodeFails, DecodeBroken, MarkerFails, FastTile, AreaTile,
         WantedTile, OtherTile, DecodesTile, Over, vars
  <2>2. planned' = planned
    <3>1. (\E i : ReadSot(i)) => planned' = planned
      BY DEF ReadSot, Jump
    <3>2. (\E i : ReadSot(i)) \/ planned' = planned
      BY <1>7 DEF SetAreaFails, DecodeFast,
         BeginDecode, PartNext, HeaderEnds, SotFails, SkipNothing, SkipPart, SkipFails, SodFails,
         TakeAndJump, TakeAndGoOn, TakeLast, TakeAndCorrect, TakeUnwanted, Fail, Takes, TileNext,
         FindTile, NoTile, DecodeFails, DecodeBroken, MarkerFails, FastTile, AreaTile,
         WantedTile, OtherTile, DecodesTile, Over, vars
    <3> QED
      BY <3>1, <3>2
  <2> QED
    BY <1>3, <1>4, <2>1, <2>2
<1>8. CASE DecodeKept
  <2>1. area' = area /\ Single
    BY <1>8 DEF DecodeKept, BeginDecode
  <2> QED
    BY <1>3, <1>4, <2>1 DEF FreshInv
<1>9. CASE \E t \in Tiles : GetTile(t)
  <2>1. PICK t \in Tiles : wanted' = t
    BY <1>9 DEF GetTile
  <2> QED
    BY <2>1 DEF Tiles
<1> QED
  BY <1>5, <1>6, <1>7, <1>8, <1>9 DEF Next, CallNext

\* Where opj_decode begins: nothing has been read, or the only tile is there.
Ready ==
  /\ state = "TPHSOT" /\ at = 1 /\ ~ last_part
  /\ \A t \in Tiles : data[t] = <<>> /\ part_no[t] = -1
Kept ==
  /\ Single /\ used = "area" /\ state = "EOC"
  /\ data[0] # <<>> /\ InOrder(0) /\ Whole(0) /\ Finished(0)

\* opj_decode begins at one of these, with no plan.
LEMMA WhereItBegins ==
  ASSUME IInv, FreshInv, Sound, wanted = -1, MayDecode,
         PlanInv, PlaceInv, IdleInv
  PROVE  /\ Ready \/ Kept
         /\ plan = <<>> /\ ~ planned /\ ~ can_decode
<1>1. pc = "idle" /\ used \in {"new", "area"} /\ N \in Nat \ {0} /\ stream \in Streams
  BY TypesOf, StreamFacts DEF MayDecode, IInv
<1>2. plan = <<>> /\ ~ planned /\ ~ can_decode
  BY <1>1 DEF PlanInv, PlaceInv
<1>3. CASE Fresh
  BY <1>2, <1>3 DEF Ready, FreshInv, IInv, ModeInv
<1>4. CASE ~ Fresh
  <2>1. Single /\ used = "area"
    BY <1>1, <1>4 DEF Fresh
  <2>2. CASE state = "TPHSOT" /\ at = 1 /\ data[0] = <<>> /\ part_no[0] = -1
    <3>1. Tiles = {0}
      <4>1. area \in Areas
        BY TypesOf DEF IInv
      <4> QED
        BY <2>1, <4>1, SingleArea DEF IInv
    <3>2. ~ last_part
      BY <1>1, <2>2 DEF PlaceInv
    <3> QED
      BY <1>2, <2>2, <3>1, <3>2 DEF Ready
  <2>3. CASE state = "EOC" /\ data[0] # <<>>
    BY <1>1, <1>2, <1>4, <2>1, <2>3 DEF Kept, IdleInv
  <2> QED
    BY <1>1, <1>4, <2>1, <2>2, <2>3 DEF IdleInv
<1> QED
  BY <1>2, <1>3, <1>4

\* Another area of the only tile.
LEMMA SetAreaArea ==
  ASSUME IInv, IInv', FreshInv, Sound, wanted = -1, SetArea, ~ Fresh',
         SyncInv, PlanInv, PlaceInv, IdleInv
  PROVE  SyncInv' /\ PlanInv' /\ PlaceInv' /\ DataInv' /\ ImageInv' /\ IdleInv'
<1> USE DEF fileVars, planVars, tileVars, indexVars, apiVars
<1>1. /\ pc = "idle" /\ used \in {"new", "decoded"} /\ used' = "area" /\ AreaAllowed
      /\ UNCHANGED <<fileVars, state, at, tile, can_decode, last_part, corr, wanted, plan, planned,
                     data, part_no, nb_parts, pc, op, image>>
  BY DEF SetArea, MaySetArea
<1>2. /\ N' = N /\ Tiles' = Tiles /\ Single' = Single /\ OffByOne' = OffByOne
      /\ (\A i : Part(i)' = Part(i)) /\ (\A t : NumOf(t)' = NumOf(t))
  BY <1>1, SameStream
<1>3. Single
  BY <1>1, <1>2 DEF Fresh
<1>4. /\ Tiles = {0} /\ InArea(0) /\ InArea(0)' /\ ~ planned
  <2>1. area \in Areas /\ area' \in Areas
    BY <1>1, TypesOf DEF IInv, SetArea, Types, TypeOK
  <2>2. Tiles = {0} /\ area.from <= 0 /\ 0 < area.to
    BY <1>3, <2>1, SingleArea DEF IInv
  <2>3. area' \in Areas
    BY DEF SetArea
  <2>4. PICK a \in Areas : a = area'
    BY <2>3
  <2>5. a.from <= 0 /\ 0 < a.to
    BY <1>3, SingleArea DEF IInv
  <2> QED
    BY <1>3, <2>2, <2>4, <2>5 DEF InArea, FreshInv
<1>5. SyncInv'
  <2>1. Synced(0) /\ CorrectedLater(0)
    BY <1>4 DEF SyncInv
  <2>2. Synced(0)' /\ CorrectedLater(0)'
    BY <1>1, <1>2, <2>1 DEF Synced, CorrectedLater
  <2> QED
    BY <1>2, <1>4, <2>2 DEF SyncInv
<1>6. PlanInv'
  BY <1>1, <1>2, <1>4 DEF PlanInv
<1>7. PlaceInv'
  BY <1>1, <1>2 DEF PlaceInv
<1>8. DataInv' /\ ImageInv'
  BY <1>1 DEF DataInv, ImageInv, InCall
<1>9. IdleInv'
  <2>1. CASE used = "new"
    <3>1. state = "TPHSOT" /\ at = 1 /\ data[0] = <<>> /\ part_no[0] = -1
      BY <1>4, <2>1 DEF Fresh, FreshInv, IInv, ModeInv
    <3> QED
      BY <1>1, <3>1 DEF IdleInv
  <2>2. CASE used = "decoded"
    <3>1. /\ state = "EOC"
          /\ data[0] # <<>> => InOrder(0) /\ Whole(0) /\ Finished(0)
      BY <1>1, <1>3, <2>2 DEF IdleInv, Fresh
    <3>2. data[0] # <<>>
      BY <1>1, <3>1 DEF AreaAllowed
    <3>3. InOrder(0)' /\ Whole(0)' /\ Finished(0)'
      BY <1>1, <1>2, <3>1, <3>2 DEF InOrder, Whole, Finished
    <3> QED
      BY <1>1, <3>1, <3>2, <3>3 DEF IdleInv
  <2> QED
    BY <1>1, <2>1, <2>2
<1> QED
  BY <1>5, <1>6, <1>7, <1>8, <1>9

\* Where opj_decode begins.
LEMMA DecodeAreaBegins ==
  ASSUME IInv, IInv', IndexRight, FreshInv, FreshInv', Sound, wanted = -1,
         SyncInv, PlanInv, PlaceInv, IdleInv, DecodeFast \/ DecodeKept \/ DecodeArea
  PROVE  /\ SyncInv' /\ PlanInv' /\ PlaceInv' /\ DataInv' /\ ImageInv' /\ IdleInv'
         /\ pc' # "failed"
<1> USE DEF fileVars, planVars, tileVars, indexVars, apiVars
<1>1. /\ pc = "idle" /\ used' = "decoded" /\ image' = <<>> /\ nr_tiles' = 0 /\ MayDecode
      /\ UNCHANGED <<fileVars, state, at, can_decode, last_part, corr, wanted, area,
                     data, part_no, nb_parts>>
  BY DEF DecodeFast, DecodeKept, DecodeArea, MayDecode, BeginDecode
<1>2. /\ N' = N /\ Tiles' = Tiles /\ Single' = Single /\ OffByOne' = OffByOne /\ stream' = stream
      /\ (\A i : Part(i)' = Part(i)) /\ (\A t : NumOf(t)' = NumOf(t))
  BY <1>1, SameStream
<1>3. (Ready \/ Kept) /\ plan = <<>> /\ ~ planned /\ ~ can_decode
  BY <1>1, WhereItBegins
<1>4. /\ stream \in Streams /\ N \in Nat \ {0} /\ Ordered /\ 0 \in Tiles
      /\ \A i \in 1..N : Part(i).part \in Nat
      /\ \A t : InArea(t)' <=> InArea(t)
  BY <1>1, TypesOf, StreamFacts, SoundFacts DEF IInv, InArea
<1>5. SyncInv'
  <2>1. \A t \in Tiles : Synced(t) /\ (InArea(t) => CorrectedLater(t))
    BY <1>3 DEF SyncInv
  <2>2. \A t \in Tiles : Synced(t)' /\ (InArea(t) => CorrectedLater(t)')
    BY <1>1, <1>2, <2>1 DEF Synced, CorrectedLater
  <2> QED
    BY <1>2, <1>4, <2>2 DEF SyncInv
<1>6. ~ Done(0)' /\ \A t : ~ Done(t)'
  <2>1. DOMAIN image' = {}
    BY <1>1
  <2> QED
    BY <2>1 DEF Done
<1>7. ImageInv'
  <2>1. DOMAIN image' = {} /\ Len(image') = 0
    BY <1>1
  <2>2. op' = "fast" => IsFast'
    <3>1. op' = "fast" => IsFast
      BY DEF DecodeFast, DecodeKept, DecodeArea, BeginDecode
    <3> QED
      BY <1>1, <1>2, <3>1 DEF IsFast
  <2> QED
    BY <1>1, <2>1, <2>2 DEF ImageInv
<1>8. CASE Ready
  <2>1. DecodeFast \/ DecodeArea
    BY <1>4, <1>8 DEF DecodeKept, Ready
  <2>2. pc' = "header" /\ EnterHeader(state)
    BY <1>8, <2>1 DEF Ready, DecodeFast, DecodeArea, EnterHeader
  <2>3. PlaceInv'
    BY <1>1, <1>2, <1>3, <1>4, <1>8, <2>2 DEF Ready, PlaceInv
  <2>4. IdleInv'
    BY <2>2 DEF IdleInv
  <2>5. DataInv'
    <3>1. ASSUME NEW t \in Tiles
          PROVE  InOrder(t)' /\ Counted(t)' /\ ~ Finished(t)' /\ data'[t] = <<>>
      <4>1. data'[t] = <<>> /\ part_no'[t] = -1 /\ NumOf(t) \in Nat \ {0}
        BY <1>1, <1>4, <1>8, OrderFacts DEF Ready
      <4> QED
        BY <1>2, <4>1 DEF InOrder, Counted, Finished
    <3> QED
      BY <1>2, <1>6, <2>2, <3>1 DEF DataInv
  <2>6. PlanInv'
    <3>1. CASE DecodeFast
      BY <1>1, <1>2, <1>3, <1>4, <1>8, <3>1 DEF DecodeFast, PlanInv, Ready
    <3>2. CASE DecodeArea
      <4>1. plan' = PlanOfArea /\ (planned' <=> plan' # <<>>)
        BY <3>2 DEF DecodeArea
      <4>2. CASE plan' = <<>>
        BY <1>1, <1>2, <1>4, <1>8, <4>1, <4>2 DEF PlanInv, Ready
      <4>3. CASE plan' # <<>>
        <5>1. PICK q : q = plan'
          OBVIOUS
        <5>2. Fresh
          <6>1. ~ Single
            BY <1>2, <4>1, <4>3 DEF FreshInv
          <6> QED
            BY <1>1, <6>1 DEF MayDecode, Fresh
        <5>3. /\ ~ Single /\ stream.tlm # <<>>
              /\ \A j, k \in 1..Len(q) : j < k => q[j] < q[k]
              /\ \A i \in 1..N : (\E k \in 1..Len(q) : q[k] = i) <=> InArea(Part(i).tile)
          BY <4>1, <4>3, <5>1, <5>2, PlanRight
        <5>4. at' = 1
          BY <1>1, <1>8 DEF Ready
        <5> QED
          BY <1>1, <1>2, <1>4, <2>2, <4>1, <4>3, <5>1, <5>3, <5>4 DEF PlanInv
      <4> QED
        BY <4>2, <4>3
    <3> QED
      BY <2>1, <3>1, <3>2
  <2> QED
    BY <1>5, <1>7, <2>2, <2>3, <2>4, <2>5, <2>6
<1>9. CASE Kept
  <2>1. /\ DecodeFast \/ DecodeKept
        /\ Single /\ state = "EOC" /\ data[0] # <<>> /\ InOrder(0) /\ Whole(0) /\ Finished(0)
    BY <1>9 DEF DecodeArea, Kept
  <2>2. Tiles = {0} /\ tile' = 0 /\ InArea(0)
    <3>1. area \in Areas /\ Types
      BY TypesOf DEF IInv
    <3>2. Tiles = {0} /\ tile = 0 /\ area.from <= 0 /\ 0 < area.to
      BY <2>1, <3>1, SingleArea
    <3> QED
      BY <2>1, <3>2 DEF DecodeFast, DecodeKept, InArea
  <2>3. pc' \in {"found", "decode"}
    BY <2>1 DEF DecodeFast, DecodeKept, EnterHeader
  <2>4. PlanInv'
    BY <1>1, <1>2, <1>3, <2>1, <2>3 DEF DecodeFast, DecodeKept, PlanInv
  <2>5. PlaceInv'
    BY <1>1, <1>2, <1>3, <2>1, <2>3 DEF PlaceInv
  <2>6. IdleInv'
    BY <2>3 DEF IdleInv
  <2>7. DataInv'
    <3>1. InOrder(0)' /\ Counted(0)' /\ Finished(0)'
      <4>1. NumOf(0) \in Nat /\ part_no[0] \in Nat \cup {-1}
        BY <1>4, <2>2, NumOfBound, TypesOf DEF IInv
      <4>2. Counted(0)
        BY <2>1, <4>1 DEF Whole, Finished, Counted
      <4> QED
        BY <1>1, <1>2, <2>1, <4>2 DEF InOrder, Counted, Finished
    <3>2. state' = "EOC"
      BY <1>1, <2>1
    <3> QED
      BY <1>2, <1>4, <1>6, <2>2, <3>1, <3>2 DEF DataInv
  <2> QED
    BY <1>5, <1>7, <2>3, <2>4, <2>5, <2>6, <2>7
<1> QED
  BY <1>3, <1>8, <1>9

-----------------------------------------------------------------------------
(***************************************************************************)
(* The loop over the tile-parts, of an area                                *)
(***************************************************************************)
\* The SOT that comes next is the first ahead that matters.
LEMMA SotAhead ==
  ASSUME IInv, Sound, SyncInv, PlanInv, PlaceInv, AtSot, NEW i \in 1..N, i = Here
  PROVE  /\ at <= i /\ ~ last_part
         /\ InArea(Part(i).tile) \/ ~ planned
         /\ \A j \in 1..N : InArea(Part(j).tile) \/ ~ planned => (j >= at <=> j >= i)
         /\ Part(i).part = part_no[Part(i).tile] + 1
<1>1. /\ stream \in Streams /\ N \in Nat \ {0} /\ at \in 0..(N + 1) /\ plan \in Seq(1..N)
      /\ part_no \in [Tiles -> Nat \cup {-1}] /\ pc = "header" /\ Ordered
      /\ \A j \in 1..N : Part(j).tile \in Tiles /\ Part(j).part \in Nat
  BY TypesOf, StreamFacts, SoundFacts DEF IInv, AtSot
<1>2. /\ at <= i /\ (InArea(Part(i).tile) \/ ~ planned)
      /\ \A j \in 1..N : InArea(Part(j).tile) \/ ~ planned => (j >= at <=> j >= i)
  <2>1. CASE planned
    <3>1. /\ plan # <<>>
          /\ \A j, k \in 1..Len(plan) : j < k => plan[j] < plan[k]
          /\ \A j \in 1..N : (\E k \in 1..Len(plan) : plan[k] = j) <=> InArea(Part(j).tile) /\ j >= at
      BY <1>1, <2>1 DEF PlanInv
    <3>2. i = plan[1] /\ 1 \in 1..Len(plan) /\ Len(plan) \in Nat
      BY <1>1, <3>1 DEF Here
    <3>3. InArea(Part(i).tile) /\ i >= at
      BY <3>1, <3>2
    <3>4. ASSUME NEW j \in 1..N, InArea(Part(j).tile), j >= at PROVE j >= i
      <4>1. PICK k \in 1..Len(plan) : plan[k] = j
        BY <3>1, <3>4
      <4>2. k = 1 \/ 1 < k
        BY <3>2
      <4>3. 1 < k => i < j
        BY <3>1, <3>2, <4>1
      <4> QED
        BY <3>2, <4>1, <4>2, <4>3
    <3> QED
      BY <1>1, <2>1, <3>3, <3>4
  <2>2. CASE ~ planned
    <3>1. i = at
      BY <2>2 DEF PlanInv, Here
    <3> QED
      BY <1>1, <2>2, <3>1
  <2> QED
    BY <2>1, <2>2
<1>3. ~ last_part
  BY <1>1, <1>2 DEF PlaceInv
<1>4. Part(i).part = part_no[Part(i).tile] + 1
  <2>1. PICK u \in Tiles : u = Part(i).tile
    BY <1>1
  <2>2. PICK m \in Nat \cup {-1} : m = part_no[u]
    BY <1>1
  <2>3. Synced(u)
    BY <1>2, <2>1 DEF SyncInv
  <2>4. \A j \in 1..N : Part(j).tile = Part(i).tile => (Part(j).part > m <=> j >= i)
    BY <1>2, <2>1, <2>2, <2>3 DEF Synced
  <2> QED
    BY <1>1, <2>1, <2>2, <2>4, NextPart
<1> QED
  BY <1>2, <1>3, <1>4

\* It is accepted, if TNsot has been corrected in time.
LEMMA SotSucceeds ==
  ASSUME IInv, NumbersInv, Sound, wanted = -1, SyncInv, PlanInv, PlaceInv, CorrectedInTime,
         AtSot, NEW i \in 1..N, i = Here
  PROVE  ~ SotRefused(Part(i))
<1>1. /\ stream \in Streams /\ N \in Nat /\ Types /\ (Truthful \/ OffByOne)
      /\ part_no \in [Tiles -> Nat \cup {-1}]
      /\ \A j \in 1..N : Part(j).tile \in Tiles /\ Part(j).part \in Nat
  BY TypesOf, StreamFacts, SoundFacts DEF IInv
<1>2. /\ at <= i /\ Part(i).part = part_no[Part(i).tile] + 1
      /\ \A j \in 1..N : InArea(Part(j).tile) \/ ~ planned => (j >= at <=> j >= i)
  BY SotAhead
<1>3. ~ OutOfOrder(Part(i))
  BY <1>2 DEF OutOfOrder
<1>4. ASSUME NEW j \in 1..(i - 1), InArea(Part(j).tile)
      PROVE  Part(j).part <= part_no[Part(j).tile]
  <2>1. j \in 1..N /\ ~ (j >= i)
    BY <1>1
  <2>2. Synced(Part(j).tile) /\ ~ (j >= at)
    BY <1>1, <1>2, <1>4, <2>1 DEF SyncInv
  <2>3. ~ (Part(j).part > part_no[Part(j).tile])
    BY <2>1, <2>2 DEF Synced
  <2> QED
    BY <1>1, <2>1, <2>3
<1>5. \A t \in Tiles : InArea(t) => CorrectedLater(t)
  BY DEF SyncInv
<1> QED
  BY <1>1, <1>2, <1>3, <1>4, <1>5, SotAccepted

\* What lies ahead after it.
LEMMA SotArea ==
  ASSUME IInv, Sound, SyncInv, PlanInv, PlaceInv, AtSot, NEW i \in 1..N, i = Here,
         ReadSot(i)
  PROVE  /\ AfterSod(i) = i /\ SodState(i) = "TPHSOT" /\ ~ IsCut(i) /\ planned' = planned
         /\ last_part' => i = N /\ InArea(Part(i).tile)
         /\ part_no' = [part_no EXCEPT ![Part(i).tile] = Part(i).part]
         /\ \A t \in Tiles : InArea(t) \/ ~ planned =>
              \A j \in 1..N : Part(j).tile = t => (Part(j).part > part_no'[t] <=> j >= i + 1)
         /\ ~ planned => plan' = <<>>
         /\ planned => \A j, k \in 1..Len(plan') : j < k => plan'[j] < plan'[k]
         /\ planned => \A j \in 1..N :
              (\E k \in 1..Len(plan') : plan'[k] = j) <=> InArea(Part(j).tile) /\ j >= i + 1
<1>1. /\ stream \in Streams /\ N \in Nat \ {0} /\ at \in 0..(N + 1) /\ plan \in Seq(1..N)
      /\ part_no \in [Tiles -> Nat \cup {-1}] /\ pc = "header" /\ Ordered /\ ~ stream.cut
      /\ \A j \in 1..N : Part(j).tile \in Tiles /\ Part(j).part \in Nat
      /\ \A j \in 1..N : Part(j).psot0 => InArea(Part(j).tile) /\ j = N
  BY TypesOf, StreamFacts, SoundFacts DEF IInv, AtSot
<1>2. /\ at <= i /\ ~ last_part
      /\ InArea(Part(i).tile) \/ ~ planned
      /\ \A j \in 1..N : InArea(Part(j).tile) \/ ~ planned => (j >= at <=> j >= i)
  BY SotAhead
<1>3. /\ part_no' = [part_no EXCEPT ![Part(i).tile] = Part(i).part]
      /\ plan' = (IF plan # <<>> THEN Tail(plan) ELSE plan) /\ planned' = planned
      /\ last_part' => Part(i).psot0
  BY <1>2 DEF ReadSot, Jump
<1>4. /\ last_part' => i = N /\ InArea(Part(i).tile)
  BY <1>1, <1>3
<1>5. AfterSod(i) = i /\ SodState(i) = "TPHSOT" /\ ~ IsCut(i)
  BY <1>1, <1>4 DEF AfterSod, SodState, IsCut
<1>6. ASSUME NEW t \in Tiles, InArea(t) \/ ~ planned, NEW j \in 1..N, Part(j).tile = t
      PROVE  Part(j).part > part_no'[t] <=> j >= i + 1
  <2>1. CASE Part(i).tile = t
    <3>1. part_no'[t] = Part(i).part
      BY <1>1, <1>3, <2>1
    <3> QED
      BY <1>1, <1>6, <2>1, <3>1, AfterPart
  <2>2. CASE Part(i).tile # t
    <3>1. part_no'[t] = part_no[t]
      BY <1>1, <1>3, <2>2
    <3>2. Part(j).part > part_no[t] <=> j >= at
      BY <1>6 DEF SyncInv, Synced
    <3>3. j # i /\ (j >= at <=> j >= i)
      BY <1>2, <1>6, <2>2
    <3> QED
      BY <1>1, <3>1, <3>2, <3>3
  <2> QED
    BY <2>1, <2>2
<1>7. ~ planned => plan' = <<>>
  BY <1>3 DEF PlanInv
<1>8. ASSUME planned
      PROVE  /\ \A j, k \in 1..Len(plan') : j < k => plan'[j] < plan'[k]
             /\ \A j \in 1..N :
                  (\E k \in 1..Len(plan') : plan'[k] = j) <=> InArea(Part(j).tile) /\ j >= i + 1
  <2>1. /\ plan # <<>>
        /\ \A j, k \in 1..Len(plan) : j < k => plan[j] < plan[k]
        /\ \A j \in 1..N : (\E k \in 1..Len(plan) : plan[k] = j) <=> InArea(Part(j).tile) /\ j >= at
    BY <1>1, <1>8 DEF PlanInv
  <2>2. PICK q : q = plan'
    OBVIOUS
  <2>3. /\ i = plan[1] /\ Len(plan) \in Nat \ {0} /\ Len(q) = Len(plan) - 1
        /\ \A k \in 1..Len(q) : q[k] = plan[k + 1]
    BY <1>1, <1>3, <2>1, <2>2 DEF Here
  <2>4. ASSUME NEW j \in 1..Len(q), NEW k \in 1..Len(q), j < k PROVE q[j] < q[k]
    <3>1. j + 1 \in 1..Len(plan) /\ k + 1 \in 1..Len(plan) /\ j + 1 < k + 1
      BY <2>3, <2>4
    <3> QED
      BY <2>1, <2>3, <3>1
  <2>5. ASSUME NEW j \in 1..N
        PROVE  (\E k \in 1..Len(q) : q[k] = j) <=> InArea(Part(j).tile) /\ j >= i + 1
    <3>1. ASSUME NEW k \in 1..Len(q), q[k] = j PROVE InArea(Part(j).tile) /\ j >= i + 1
      <4>1. k + 1 \in 1..Len(plan) /\ 1 \in 1..Len(plan) /\ 1 < k + 1 /\ plan[k + 1] = j
        BY <2>3, <3>1
      <4>2. i < j
        BY <2>1, <2>3, <4>1
      <4>3. InArea(Part(j).tile)
        BY <2>1, <4>1
      <4> QED
        BY <1>1, <4>2, <4>3
    <3>2. ASSUME InArea(Part(j).tile), j >= i + 1 PROVE \E k \in 1..Len(q) : q[k] = j
      <4>1. j >= at
        BY <1>1, <1>2, <3>2
      <4>2. PICK k \in 1..Len(plan) : plan[k] = j
        BY <2>1, <3>2, <4>1
      <4>3. k # 1
        BY <2>3, <3>2, <4>2
      <4>4. k - 1 \in 1..Len(q) /\ (k - 1) + 1 = k
        BY <2>3, <4>3
      <4> QED
        BY <2>3, <4>2, <4>4
    <3> QED
      BY <3>1, <3>2
  <2> QED
    BY <2>2, <2>4, <2>5
<1> QED
  BY <1>3, <1>4, <1>5, <1>6, <1>7, <1>8

\* Where there is no EOC: the last tile-part is the only one of the last tile, and
\* nothing says that it is complete.
LEMMA LoneLast ==
  ASSUME Spot6, stream \in Streams, NumbersInv', UNCHANGED fileVars,
         part_no'[Part(N).tile] = Part(N).part, nb_parts' \in [Tiles -> Nat]
  PROVE  /\ Part(N).tile = stream.tiles - 1 /\ Part(N).tile \in Lone
         /\ \A t \in Tiles : NumOf(t) = 1
<1>1. /\ N \in Nat \ {0} /\ stream.tiles \in Nat /\ N \in 1..N /\ N = stream.tiles /\ Ordered
      /\ \A j \in 1..N : Part(j).tile = j - 1 /\ Part(j).tile \in Tiles /\ Part(j).part \in Nat
  BY StreamFacts DEF Spot6
<1>2. Part(N).num = 0
  <2>1. PICK i \in 1..N : \A j \in 1..N : Part(j).num = IF j < i THEN 1 ELSE 0
    BY DEF Spot6
  <2> QED
    BY <1>1, <2>1
<1>3. ASSUME NEW t \in Tiles PROVE NumOf(t) = 1
  <2>1. NumOf(t) \in Nat \ {0}
    BY <1>1, OrderFacts
  <2> SUFFICES ASSUME NumOf(t) # 1 PROVE FALSE
    OBVIOUS
  <2>2. 0 \in 0..(NumOf(t) - 1) /\ 1 \in 0..(NumOf(t) - 1)
    BY <2>1
  <2>3. PICK j \in 1..N : Part(j).tile = t /\ Part(j).part = 0
    BY <1>1, <2>2, PartThere
  <2>4. PICK k \in 1..N : Part(k).tile = t /\ Part(k).part = 1
    BY <1>1, <2>2, PartThere
  <2>5. j = k
    BY <1>1, <2>3, <2>4
  <2> QED
    BY <2>3, <2>4, <2>5
<1>4. PICK u \in Tiles : u = Part(N).tile
  BY <1>1
<1>5. part_no'[u] = 0
  <2>1. Part(N).part \in 0..(NumOf(u) - 1)
    BY <1>1, <1>4, OrderFacts
  <2> QED
    BY <1>3, <1>4, <2>1
<1>6. nb_parts'[u] = 0
  <2>1. Tiles' = Tiles /\ N' = N /\ \A j : Part(j)' = Part(j)
    BY SameStream
  <2>2. nb_parts'[u] # 0 => \E j \in 1..N : Part(j).tile = u /\ Part(j).num # 0
    BY <2>1 DEF NumbersInv
  <2>3. \A j \in 1..N : Part(j).tile = u => j = N
    BY <1>1, <1>4
  <2> QED
    BY <1>2, <2>2, <2>3
<1> QED
  BY <1>1, <1>3, <1>4, <1>5, <1>6 DEF Lone

\* The marker after a tile-part: where all ends, there is one that says so, or a tile
\* that may be complete.
LEMMA MarkerArea ==
  ASSUME stream \in Streams, NumbersInv', UNCHANGED fileVars, nb_parts' \in [Tiles -> Nat],
         stream.eoc \/ Spot6, NEW i \in 1..N, part_no'[Part(i).tile] = Part(i).part,
         NextMarker(i, Part(i).tile, "TPHSOT")
  PROVE  /\ at' = i + 1
         /\ i < N => pc' = "header" /\ state' = "TPHSOT"
         /\ i = N => /\ pc' = "found" /\ state' = "EOC"
                     /\ tile' = 0 \/ (Spot6 /\ tile' = Min(Lone))
<1>1. N \in Nat
  BY StreamFacts
<1>2. at' = i + 1 /\ (i < N => pc' = "header" /\ state' = "TPHSOT")
  BY <1>1 DEF NextMarker
<1>3. CASE stream.eoc
  BY <1>2, <1>3, MarkerPlace
<1>4. CASE i = N /\ ~ stream.eoc
  <2>1. /\ Spot6 /\ Part(i).tile = stream.tiles - 1 /\ Lone # {}
    BY <1>4, LoneLast
  <2>2. pc' = "found" /\ state' = "EOC" /\ tile' = Min(Lone)
    BY <1>1, <1>4, <2>1 DEF NextMarker
  <2> QED
    BY <1>1, <1>2, <1>4, <2>1, <2>2
<1> QED
  BY <1>1, <1>2, <1>3, <1>4

\* The data of a tile, with the next tile-part.
LEMMA TakenData ==
  ASSUME Types, UNCHANGED fileVars, NEW i \in 1..N, NEW t \in Tiles, t = Part(i).tile,
         InOrder(t), Counted(t), Part(i).part = part_no[t] + 1,
         data'[t] = data[t] \o <<i>>, part_no'[t] = Part(i).part
  PROVE  InOrder(t)' /\ Counted(t)'
<1>1. PICK d \in Seq(1..N) : d = data[t]
  BY TypesOf
<1>2. /\ part_no[t] \in Nat \cup {-1} /\ Len(d) \in Nat /\ Part(i).part \in Nat
  <2>1. Len(d) \in Nat
    OBVIOUS
  <2>2. part_no \in [Tiles -> Nat \cup {-1}] /\ Part(i).part \in Nat
    BY TypesOf, StreamFacts
  <2> QED
    BY <2>1, <2>2
<1>3. PICK e : e = data'[t]
  OBVIOUS
<1>4. Len(e) = Len(d) + 1 /\ \A k \in 1..Len(e) : e[k] = IF k <= Len(d) THEN d[k] ELSE i
  BY <1>1, <1>2, <1>3
<1>5. Len(d) = Part(i).part
  BY <1>1, <1>2 DEF Counted
<1>6. Counted(t)'
  BY <1>2, <1>3, <1>4, <1>5 DEF Counted
<1>7. ASSUME NEW k \in 1..Len(e) PROVE Part(e[k]).tile = t /\ Part(e[k]).part = k - 1
  <2>1. CASE k <= Len(d)
    <3>1. k \in 1..Len(d) /\ e[k] = d[k]
      BY <1>2, <1>4, <2>1
    <3> QED
      BY <1>1, <3>1 DEF InOrder
  <2>2. CASE ~ (k <= Len(d))
    <3>1. e[k] = i /\ k - 1 = Len(d)
      BY <1>2, <1>4, <2>2
    <3> QED
      BY <1>5, <3>1
  <2> QED
    BY <2>1, <2>2
<1>8. \A k : Part(k)' = Part(k)
  BY SameStream
<1> QED
  BY <1>3, <1>6, <1>7, <1>8 DEF InOrder

\* A tile-part of the area is the next one of a tile that has not been decoded.
LEMMA DataStep ==
  ASSUME IInv, Sound, SyncInv, PlanInv, PlaceInv, DataInv, UNCHANGED <<fileVars, apiVars, image>>,
         AtSot, NEW i \in 1..N, i = Here, ReadSot(i),
         \A t \in Tiles : t # Part(i).tile => data'[t] = data[t],
         data'[Part(i).tile] = IF InArea(Part(i).tile) THEN data[Part(i).tile] \o <<i>>
                                                       ELSE data[Part(i).tile]
  PROVE  /\ \A t \in Tiles : Done(t)' <=> Done(t)
         /\ \A t \in Tiles : InArea(t)' <=> InArea(t)
         /\ InArea(Part(i).tile) => ~ Done(Part(i).tile)
         /\ \A t \in Tiles : ~ InArea(t) => data'[t] = <<>>
         /\ \A t \in Tiles : t # Part(i).tile => part_no'[t] = part_no[t]
         /\ \A t \in Tiles : InArea(t) =>
              /\ InOrder(t)'
              /\ IF Done(t) THEN data'[t] = <<>> /\ Finished(t)' ELSE Counted(t)'
<1>1. PICK u \in Tiles : u = Part(i).tile
  BY StreamFacts, TypesOf DEF IInv
<1>2. /\ stream \in Streams /\ part_no \in [Tiles -> Nat \cup {-1}] /\ Ordered /\ Types
      /\ Part(i).part \in 0..(NumOf(u) - 1) /\ NumOf(u) \in Nat
  BY <1>1, StreamFacts, SoundFacts, TypesOf, OrderFacts, NumOfBound DEF IInv
<1>3. /\ Part(i).part = part_no[u] + 1
      /\ part_no' = [part_no EXCEPT ![u] = Part(i).part]
  BY <1>1, SotAhead, SotArea
<1>4. part_no'[u] = Part(i).part /\ \A t \in Tiles : t # u => part_no'[t] = part_no[t]
  BY <1>2, <1>3
<1>5. UNCHANGED fileVars /\ (\A k : Part(k)' = Part(k)) /\ (\A t : NumOf(t)' = NumOf(t))
  BY SameStream
<1>6. (\A t \in Tiles : Done(t)' <=> Done(t)) /\ (\A t \in Tiles : InArea(t)' <=> InArea(t))
  BY DEF apiVars, Done, InArea
<1>7. /\ \A t \in Tiles : ~ InArea(t) => data[t] = <<>>
      /\ \A t \in Tiles : InArea(t) =>
           InOrder(t) /\ IF Done(t) THEN data[t] = <<>> /\ Finished(t) ELSE Counted(t)
  BY DEF DataInv, InCall, AtSot
<1>8. InArea(u) => ~ Done(u)
  <2>1. ~ Finished(u)
    BY <1>2, <1>3 DEF Finished
  <2> QED
    BY <1>7, <2>1
<1>9. \A t \in Tiles : ~ InArea(t) => data'[t] = <<>>
  BY <1>1, <1>7
<1>10. ASSUME NEW t \in Tiles, InArea(t)
       PROVE  InOrder(t)' /\ IF Done(t) THEN data'[t] = <<>> /\ Finished(t)' ELSE Counted(t)'
  <2>1. CASE t = u
    <3>1. InOrder(t) /\ Counted(t) /\ ~ Done(t)
      BY <1>7, <1>8, <1>10, <2>1
    <3>2. data'[t] = data[t] \o <<i>>
      BY <1>1, <1>10, <2>1
    <3>3. InOrder(t)' /\ Counted(t)'
      BY <1>1, <1>2, <1>3, <1>4, <1>5, <2>1, <3>1, <3>2, TakenData
    <3> QED
      BY <3>1, <3>3
  <2>2. CASE t # u
    <3>1. data'[t] = data[t] /\ part_no'[t] = part_no[t]
      BY <1>1, <1>4, <2>2
    <3> QED
      BY <1>5, <1>7, <1>10, <3>1 DEF InOrder, Finished, Counted
  <2> QED
    BY <2>1, <2>2
<1> QED
  BY <1>1, <1>4, <1>6, <1>8, <1>9, <1>10

\* Where all has been read, what has not been decoded of the area is complete.
LEMMA AllMet ==
  ASSUME stream \in Streams, Ordered, NEW t \in Tiles, NEW d \in Seq(1..N),
         NEW m \in Nat \cup {-1}, NEW a \in Nat, Len(d) = m + 1,
         \A k \in 1..Len(d) : Part(d[k]).tile = t /\ Part(d[k]).part = k - 1,
         \A j \in 1..N : Part(j).tile = t => (Part(j).part > m <=> j >= a) /\ ~ (j >= a)
  PROVE  Len(d) = NumOf(t) /\ m + 1 = NumOf(t)
<1>1. Len(d) = NumOf(t)
  BY NothingAhead
<1> QED
  BY <1>1

\* The part is skipped or taken, and the next marker is read.
LEMMA NextArea ==
  ASSUME IInv, IInv', NumbersInv', Sound, wanted = -1,
         SyncInv, PlanInv, PlaceInv, DataInv, ImageInv,
         UNCHANGED <<fileVars, apiVars, nr_tiles, image, can_decode>>,
         AtSot, NEW i \in 1..N, i = Here, ReadSot(i), NextMarker(i, Part(i).tile, "TPHSOT"),
         \A t \in Tiles : InArea(t) => CorrectedLater(t)',
         \A t \in Tiles : t # Part(i).tile =>
           data'[t] = data[t] /\ (nb_parts'[t] # 0 => nb_parts[t] # 0),
         data'[Part(i).tile] = IF InArea(Part(i).tile) THEN data[Part(i).tile] \o <<i>>
                                                       ELSE data[Part(i).tile],
         InArea(Part(i).tile) => nb_parts'[Part(i).tile] = 0 \/ ~ Finished(Part(i).tile)',
         planned => plan' # <<>>
  PROVE  /\ SyncInv' /\ PlanInv' /\ PlaceInv' /\ DataInv' /\ ImageInv' /\ IdleInv'
         /\ pc' # "failed"
<1> USE DEF apiVars
<1>1. PICK u \in Tiles : u = Part(i).tile
  BY StreamFacts, TypesOf DEF IInv
<1>2. /\ stream \in Streams /\ N \in Nat \ {0} /\ part_no \in [Tiles -> Nat \cup {-1}] /\ Ordered
      /\ pc = "header" /\ state = "TPHSOT" /\ ~ can_decode /\ ~ can_decode' /\ InCall
      /\ stream.eoc \/ Spot6
  BY StreamFacts, SoundFacts, TypesOf DEF IInv, AtSot, PlaceInv, InCall
<1>3. /\ planned' = planned
      /\ last_part' => i = N
      /\ part_no' = [part_no EXCEPT ![Part(i).tile] = Part(i).part]
      /\ \A t \in Tiles : InArea(t) \/ ~ planned =>
           \A j \in 1..N : Part(j).tile = t => (Part(j).part > part_no'[t] <=> j >= i + 1)
      /\ ~ planned => plan' = <<>>
      /\ planned => \A j, k \in 1..Len(plan') : j < k => plan'[j] < plan'[k]
      /\ planned => \A j \in 1..N :
           (\E k \in 1..Len(plan') : plan'[k] = j) <=> InArea(Part(j).tile) /\ j >= i + 1
  BY SotArea
<1>4. /\ N' = N /\ Tiles' = Tiles /\ Single' = Single /\ OffByOne' = OffByOne /\ stream' = stream
      /\ (\A k : Part(k)' = Part(k)) /\ (\A t : NumOf(t)' = NumOf(t))
      /\ (\A t : PartsOf(t)' = PartsOf(t))
  BY SameStream DEF fileVars
<1>5. part_no'[u] = Part(i).part /\ \A t \in Tiles : t # u => part_no'[t] = part_no[t]
  BY <1>1, <1>2, <1>3
<1>6. nb_parts' \in [Tiles -> Nat] /\ data' \in [Tiles -> Seq(1..N)]
      /\ part_no' \in [Tiles -> Nat \cup {-1}]
  BY <1>4 DEF IInv, Types, TypeOK
<1>7. /\ at' = i + 1
      /\ i < N => pc' = "header" /\ state' = "TPHSOT"
      /\ i = N => /\ pc' = "found" /\ state' = "EOC"
                  /\ tile' = 0 \/ (Spot6 /\ tile' = Min(Lone))
  BY <1>1, <1>2, <1>5, <1>6, MarkerArea
<1>8. i < N \/ i = N
  BY <1>2
<1>9. /\ \A t \in Tiles : Done(t)' <=> Done(t)
      /\ \A t \in Tiles : InArea(t)' <=> InArea(t)
      /\ InArea(u) => ~ Done(u)
      /\ \A t \in Tiles : ~ InArea(t) => data'[t] = <<>>
      /\ \A t \in Tiles : InArea(t) =>
           /\ InOrder(t)'
           /\ IF Done(t) THEN data'[t] = <<>> /\ Finished(t)' ELSE Counted(t)'
  BY <1>1, DataStep
<1>10. SyncInv'
  BY <1>3, <1>4, <1>7, <1>9 DEF SyncInv, Synced
<1>11. IdleInv'
  BY <1>7, <1>8 DEF IdleInv
<1>12. ImageInv'
  BY <1>2, <1>4, <1>9 DEF ImageInv, Complete, InArea, InCall, IsFast, fileVars
<1>13. PlaceInv'
  <2>1. i = N => N + 1 > N
    BY <1>2
  <2>2. i < N => ~ (i + 1 > N)
    BY <1>2
  <2> QED
    BY <1>2, <1>3, <1>4, <1>7, <1>8, <2>1, <2>2 DEF PlaceInv
<1>14. PlanInv'
  <2>1. planned => i < N
    <3> SUFFICES ASSUME planned PROVE i < N
      OBVIOUS
    <3>1. PICK q \in Seq(1..N) : q = plan'
      BY <1>4 DEF IInv, Types, TypeOK
    <3>2. q # <<>>
      <4>1. plan' # <<>>
        BY Zenon
      <4> QED
        BY <3>1, <4>1, Zenon
    <3>3. 1 \in 1..Len(q) /\ q[1] \in 1..N
      <4>1. Len(q) \in Nat /\ Len(q) # 0
        BY <3>1, <3>2, EmptySeq
      <4>2. 1 \in 1..Len(q)
        BY <4>1
      <4> QED
        BY <3>1, <4>2, ElementOfSeq
    <3>4. PICK j \in 1..N : j = q[1]
      BY <3>3
    <3>5. j >= i + 1
      BY <1>3, <3>1, <3>3, <3>4
    <3> QED
      BY <1>2, <3>5
  <2>2. i < N => i + 1 <= N
    BY <1>2
  <2>3. CASE planned
    <3>1. ~ Single /\ stream.tlm # <<>> /\ used = "decoded"
      BY <2>3 DEF PlanInv
    <3> QED
      BY <1>3, <1>4, <1>7, <1>9, <2>1, <2>3, <3>1, StreamFacts, <1>2 DEF PlanInv
  <2>4. CASE ~ planned
    BY <1>3, <1>4, <1>7, <1>8, <2>2, <2>4 DEF PlanInv
  <2> QED
    BY <2>3, <2>4
<1>15. DataInv'
  <2>1. ASSUME NEW t \in Tiles, InArea(t), Finished(t)', nb_parts'[t] # 0, ~ Done(t)
        PROVE  FALSE
    <3>1. CASE t = u
      <4>1. Finished(u)' /\ nb_parts'[u] # 0 /\ InArea(u)
        BY <2>1, <3>1 DEF Finished, NumOf, PartsOf
      <4>2. InArea(u) => nb_parts'[u] = 0 \/ ~ Finished(u)'
        BY <1>1, <1>4 DEF Finished
      <4> QED
        BY <4>1, <4>2
    <3>2. CASE t # u
      <4>1. part_no'[t] = part_no[t] /\ nb_parts[t] # 0
        BY <1>1, <1>5, <2>1, <3>2
      <4>2. Finished(t)
        BY <1>4, <2>1, <4>1 DEF Finished
      <4> QED
        BY <1>2, <2>1, <4>1, <4>2 DEF DataInv
    <3> QED
      BY <3>1, <3>2
  <2>2. ASSUME state' = "EOC", NEW v \in Tiles, v < tile' PROVE data'[v] = <<>>
    <3> SUFFICES ASSUME data'[v] # <<>> PROVE FALSE
      OBVIOUS
    <3>1. i = N
      BY <1>7, <1>8, <2>2
    <3>2. v \in Nat
      BY DEF Tiles
    <3>3. Spot6 /\ tile' = Min(Lone)
      BY <1>7, <2>2, <3>1, <3>2
    <3>4. u \in Lone /\ NumOf(v) = 1
      BY <1>1, <1>2, <1>5, <1>6, <3>1, <3>3, LoneLast
    <3>5. v \notin Lone
      <4>1. Lone \in SUBSET Nat
        BY DEF Lone, Tiles
      <4>2. PICK l : l = Min(Lone)
        OBVIOUS
      <4>3. l \in Nat /\ \A x \in Lone : l <= x
        BY <3>4, <4>1, <4>2, MinIn
      <4> QED
        BY <2>2, <3>2, <3>3, <4>2, <4>3
    <3>6. InArea(v) /\ ~ Done(v) /\ InOrder(v)' /\ Counted(v)'
      BY <1>9
    <3>7. Len(data'[v]) = NumOf(v) /\ part_no'[v] + 1 = NumOf(v)
      <4>1. PICK d \in Seq(1..N) : d = data'[v]
        BY <1>6
      <4>2. PICK m \in Nat \cup {-1} : m = part_no'[v]
        BY <1>6
      <4>3. Len(d) = m + 1
        BY <3>6, <4>1, <4>2 DEF Counted
      <4>4. \A k \in 1..Len(d) : Part(d[k]).tile = v /\ Part(d[k]).part = k - 1
        BY <1>4, <3>6, <4>1 DEF InOrder
      <4>5. N + 1 \in Nat
        BY <1>2
      <4>6. \A j \in 1..N : Part(j).tile = v =>
              (Part(j).part > m <=> j >= N + 1) /\ ~ (j >= N + 1)
        <5> SUFFICES ASSUME NEW j \in 1..N, Part(j).tile = v
                     PROVE  (Part(j).part > m <=> j >= N + 1) /\ ~ (j >= N + 1)
          OBVIOUS
        <5>1. Part(j).part > part_no'[v] <=> j >= i + 1
          BY <1>3, <3>6
        <5> QED
          BY <1>2, <3>1, <4>2, <5>1
      <4> QED
        BY <1>2, <4>1, <4>2, <4>3, <4>4, <4>5, <4>6, AllMet
    <3>8. part_no'[v] = 0 /\ Finished(v)'
      <4>1. PICK m \in Nat \cup {-1} : m = part_no'[v]
        BY <1>6
      <4>2. m + 1 = 1 /\ NumOf(v) = 1
        BY <3>4, <3>7, <4>1
      <4>3. m = 0
        BY <4>2
      <4>4. part_no'[v] + 1 = NumOf(v)'
        BY <1>4, <3>7
      <4> QED
        BY <4>1, <4>3, <4>4 DEF Finished
    <3>9. nb_parts'[v] # 0
      BY <3>5, <3>8 DEF Lone
    <3> QED
      BY <2>1, <3>6, <3>8, <3>9
  <2>3. ~ (pc' = "found" /\ can_decode') /\ pc' # "decode"
    BY <1>2, <1>7, <1>8
  <2> QED
    BY <1>4, <1>9, <2>1, <2>2, <2>3 DEF DataInv
<1> QED
  BY <1>7, <1>8, <1>10, <1>11, <1>12, <1>13, <1>14, <1>15

\* What is taken is the next tile-part of a tile of the area, and no more than that.
LEMMA TakesArea ==
  ASSUME IInv, Sound, wanted = -1, SyncInv, PlanInv, PlaceInv, NEW i \in 1..N, Takes(i)
  PROVE  /\ AtSot /\ i = Here /\ ReadSot(i) /\ ~ SotRefused(Part(i))
         /\ InArea(Part(i).tile) /\ AfterSod(i) = i /\ SodState(i) = "TPHSOT"
         /\ \A t \in Tiles : t # Part(i).tile => data'[t] = data[t]
         /\ data'[Part(i).tile] = data[Part(i).tile] \o <<i>>
<1>1. AtSot /\ i = Here /\ ReadSot(i) /\ ~ SotRefused(Part(i)) /\ InArea(Part(i).tile)
  BY Zenon DEF Takes, Skips
<1>2. AfterSod(i) = i /\ SodState(i) = "TPHSOT" /\ (last_part' => i = N)
  BY <1>1, SotArea
<1>3. PICK u \in Tiles : u = Part(i).tile
  BY StreamFacts, TypesOf DEF IInv
<1>4. data \in [Tiles -> Seq(1..N)] /\ N \in Nat \ {0}
  BY TypesOf, StreamFacts DEF IInv
<1>5. PICK more : more = IF last_part' THEN UpToEOC(i) ELSE <<i>>
  OBVIOUS
<1>6. data' = [data EXCEPT ![u] = @ \o more]
  BY <1>3, <1>5 DEF Takes, Collect
<1>7. more = <<i>>
  <2>1. CASE last_part'
    <3>1. i = N
      BY <1>2, <2>1
    <3>2. N - i + 1 = 1
      BY <1>4, <3>1
    <3>3. UpToEOC(i) = [k \in 1..1 |-> i + k - 1]
      BY <3>2 DEF UpToEOC
    <3>4. \A k \in 1..1 : i + k - 1 = i
      OBVIOUS
    <3>5. [k \in 1..1 |-> i + k - 1] = [k \in 1..1 |-> i]
      BY <3>4
    <3>6. [k \in 1..1 |-> i] = <<i>>
      OBVIOUS
    <3> QED
      BY <1>5, <2>1, <3>3, <3>5, <3>6
  <2> QED
    BY <1>5, <2>1
<1> QED
  BY <1>1, <1>2, <1>3, <1>4, <1>6, <1>7

\* The part of a tile that is not in the area.
LEMMA SkipPartArea ==
  ASSUME IInv, IInv', NumbersInv', Sound, wanted = -1,
         SyncInv, PlanInv, PlaceInv, DataInv, ImageInv, SkipPart
  PROVE  /\ SyncInv' /\ PlanInv' /\ PlaceInv' /\ DataInv' /\ ImageInv' /\ IdleInv'
         /\ pc' # "failed"
<1>1. PICK i : i = Here
  OBVIOUS
<1>2. /\ AtSot /\ ReadSot(i) /\ NextMarker(i, Part(i).tile, "TPHSOT")
      /\ nb_parts' = [nb_parts EXCEPT ![Part(i).tile] = NbParts(Part(i))]
      /\ ~ InArea(Part(i).tile)
      /\ UNCHANGED <<fileVars, can_decode, corr, checked, data, apiVars, nr_tiles, image>>
  BY <1>1, Zenon DEF SkipPart, Skips
<1>3. i \in 1..N /\ stream \in Streams
  BY <1>1, <1>2, HereInside, TypesOf DEF IInv
<1>4. PICK u \in Tiles : u = Part(i).tile
  BY <1>3, StreamFacts
<1>5. ~ planned
  BY <1>1, <1>2, <1>3, SotAhead
<1>6. /\ part_no' = [part_no EXCEPT ![u] = Part(i).part]
      /\ part_no \in [Tiles -> Nat \cup {-1}] /\ nb_parts \in [Tiles -> Nat]
  BY <1>1, <1>2, <1>3, <1>4, SotArea, TypesOf DEF IInv
<1>7. \A t \in Tiles : t # u => part_no'[t] = part_no[t] /\ nb_parts'[t] = nb_parts[t]
  BY <1>2, <1>4, <1>6
<1>8. ASSUME NEW t \in Tiles, InArea(t) PROVE CorrectedLater(t)'
  <2>1. t # u
    BY <1>2, <1>4, <1>8
  <2>2. CorrectedLater(t) /\ part_no'[t] = part_no[t] /\ corr' = corr
    BY <1>2, <1>7, <1>8, <2>1 DEF SyncInv
  <2>3. OffByOne' = OffByOne /\ NumOf(t)' = NumOf(t)
    BY <1>2, SameStream
  <2> QED
    BY <2>2, <2>3 DEF CorrectedLater
<1> QED
  BY <1>1, <1>2, <1>3, <1>4, <1>5, <1>7, <1>8, NextArea

\* The part that is not the last of its tile.
LEMMA GoOnArea ==
  ASSUME IInv, IInv', NumbersInv, NumbersInv', Sound, wanted = -1,
         SyncInv, PlanInv, PlaceInv, DataInv, ImageInv, NEW i \in 1..N, TakeAndGoOn(i)
  PROVE  /\ SyncInv' /\ PlanInv' /\ PlaceInv' /\ DataInv' /\ ImageInv' /\ IdleInv'
         /\ pc' # "failed"
<1>1. /\ Takes(i) /\ ~ Completes(Part(i))
      /\ nb_parts' = [nb_parts EXCEPT ![Part(i).tile] = NbParts(Part(i))]
      /\ NextMarker(AfterSod(i), Part(i).tile, SodState(i))
      /\ UNCHANGED <<fileVars, can_decode, corr, checked, apiVars, nr_tiles, image>>
  BY Zenon DEF TakeAndGoOn
<1>2. /\ AtSot /\ i = Here /\ ReadSot(i) /\ ~ SotRefused(Part(i))
      /\ InArea(Part(i).tile) /\ AfterSod(i) = i /\ SodState(i) = "TPHSOT"
      /\ \A t \in Tiles : t # Part(i).tile => data'[t] = data[t]
      /\ data'[Part(i).tile] = data[Part(i).tile] \o <<i>>
  BY <1>1, TakesArea
<1>3. /\ stream \in Streams /\ Ordered /\ (Truthful \/ OffByOne)
      /\ part_no \in [Tiles -> Nat \cup {-1}] /\ nb_parts \in [Tiles -> Nat]
      /\ Types /\ corr \in {0, 1}
  BY SoundFacts, TypesOf DEF IInv
<1>4. PICK u \in Tiles : u = Part(i).tile
  BY <1>3, StreamFacts
<1>5. /\ part_no' = [part_no EXCEPT ![Part(i).tile] = Part(i).part]
      /\ planned => \A j \in 1..N :
           (\E k \in 1..Len(plan') : plan'[k] = j) <=> InArea(Part(j).tile) /\ j >= i + 1
  BY <1>2, SotArea
<1>6. part_no'[u] = Part(i).part /\ nb_parts'[u] = NbParts(Part(i))
  BY <1>1, <1>3, <1>4, <1>5
<1>7. \A t \in Tiles : t # u => nb_parts'[t] = nb_parts[t]
  BY <1>1, <1>3, <1>4
<1>8. NumOf(u)' = NumOf(u) /\ OffByOne' = OffByOne /\ Tiles' = Tiles
  BY <1>1, SameStream
<1>9. ASSUME NEW t \in Tiles, InArea(t) PROVE CorrectedLater(t)'
  BY <1>1, <1>2, <1>3, <1>5, <1>9, StillLater DEF SyncInv
<1>10. /\ Part(i).part \in Nat /\ NumOf(u) \in Nat /\ NbParts(Part(i)) # Part(i).part + 1
       /\ Part(i).part \in 0..(NumOf(u) - 1) /\ PartsOf(u)[Part(i).part + 1] = i
       /\ \A k \in 1..NumOf(u) : PartsOf(u)[k] \in 1..N
  BY <1>1, <1>3, <1>4, OrderFacts, StreamFacts DEF Completes
<1>11. nb_parts'[u] = 0 \/ ~ Finished(u)'
  <2> SUFFICES ASSUME nb_parts'[u] # 0, Finished(u)' PROVE FALSE
    OBVIOUS
  <2>1. Part(i).part + 1 = NumOf(u)
    BY <1>6, <1>8 DEF Finished
  <2>2. CASE Truthful
    <3>1. NbParts(Part(i)) \in {0, NumOf(u)}
      BY <1>3, <1>4, <2>2, NumberRead
    <3> QED
      BY <1>6, <1>10, <2>1, <3>1
  <2>3. CASE OffByOne
    <3>1. NbParts(Part(i)) = NumOf(u) - 1 + corr
      BY <1>3, <1>4, <2>3, NumberRead
    <3>2. corr = 0
      BY <1>3, <1>10, <2>1, <3>1
    <3>3. CorrectedLater(u)' /\ corr' = corr
      BY <1>1, <1>2, <1>4, <1>9
    <3>4. part_no'[u] + 2 < NumOf(u)
      BY <1>8, <2>3, <3>2, <3>3 DEF CorrectedLater
    <3> QED
      BY <1>6, <1>10, <2>1, <3>4
  <2> QED
    BY <1>3, <2>2, <2>3
<1>12. ASSUME planned PROVE plan' # <<>>
  <2> SUFFICES ASSUME plan' = <<>> PROVE FALSE
    OBVIOUS
  <2>1. \A j \in 1..N : ~ (InArea(Part(j).tile) /\ j >= i + 1)
    BY <1>5, <1>12
  <2>2. Part(i).part + 1 = NumOf(u)
    <3> SUFFICES ASSUME Part(i).part + 1 # NumOf(u) PROVE FALSE
      OBVIOUS
    <3>1. PICK k \in 0..(NumOf(u) - 1) : k = Part(i).part + 1
      BY <1>10
    <3>2. PICK j \in 1..N : Part(j).tile = u /\ Part(j).part = k
      BY <1>3, PartThere
    <3>3. i < j
      BY <1>3, <1>4, <1>10, <3>1, <3>2, OrderOf
    <3> QED
      BY <1>2, <1>4, <2>1, <3>2, <3>3
  <2>3. stream.tlm # <<>>
    BY <1>12 DEF PlanInv
  <2>4. LastKnown /\ Conformant
    BY <1>3, <1>12, <2>3, SoundFacts
  <2>5. Part(i).num # 0
    <3>1. Last(PartsOf(u)) = i
      BY <1>10, <2>2 DEF Last, NumOf
    <3> QED
      BY <2>4, <3>1 DEF LastKnown
  <2>6. Truthful
    BY <2>4 DEF Truthful, Conformant
  <2>7. NbParts(Part(i)) \in {0, NumOf(u)} /\ NbParts(Part(i)) # 0
    BY <1>3, <1>4, <2>5, <2>6, NumberRead
  <2> QED
    BY <1>10, <2>2, <2>7
<1>13. nb_parts'[Part(i).tile] = 0 \/ ~ Finished(Part(i).tile)'
  <2>1. Part(i)' = Part(i)
    BY <1>1, SameStream
  <2>2. nb_parts'[u] = 0 \/ ~ (part_no'[u] + 1 = NumOf(u)')
    BY <1>11 DEF Finished
  <2> QED
    BY <1>4, <2>1, <2>2 DEF Finished, NumOf, PartsOf
<1>14. UNCHANGED <<fileVars, apiVars, nr_tiles, image, can_decode>>
  BY <1>1
<1> QED
  BY <1>1, <1>2, <1>4, <1>7, <1>9, <1>12, <1>13, <1>14, NextArea

\* The part after which TNsot is corrected.
LEMMA CorrectArea ==
  ASSUME IInv, IInv', NumbersInv', Sound, wanted = -1,
         SyncInv, PlanInv, PlaceInv, DataInv, ImageInv, NEW i \in 1..N, TakeAndCorrect(i)
  PROVE  /\ SyncInv' /\ PlanInv' /\ PlaceInv' /\ DataInv' /\ ImageInv' /\ IdleInv'
         /\ pc' # "failed"
<1>1. /\ Takes(i) /\ NeedsCorrection(i)
      /\ nb_parts' = OneMore([nb_parts EXCEPT ![Part(i).tile] = NbParts(Part(i))])
      /\ corr' = 1
      /\ NextMarker(AfterSod(i), Part(i).tile, SodState(i))
      /\ UNCHANGED <<fileVars, can_decode, apiVars, nr_tiles, image>>
  BY Zenon DEF TakeAndCorrect
<1>2. /\ AtSot /\ i = Here /\ ReadSot(i)
      /\ InArea(Part(i).tile) /\ AfterSod(i) = i /\ SodState(i) = "TPHSOT"
      /\ \A t \in Tiles : t # Part(i).tile => data'[t] = data[t]
      /\ data'[Part(i).tile] = data[Part(i).tile] \o <<i>>
  BY <1>1, TakesArea
<1>3. /\ stream \in Streams /\ Ordered /\ N \in Nat
      /\ part_no \in [Tiles -> Nat \cup {-1}] /\ nb_parts \in [Tiles -> Nat] /\ Types
      /\ ~ Truthful
  BY <1>1, SoundFacts, StreamFacts, TypesOf, NoCorrection DEF IInv
<1>4. OffByOne /\ ~ planned
  <2>1. OffByOne
    BY <1>3, SoundFacts
  <2> QED
    BY <2>1 DEF OffByOne, PlanInv
<1>5. PICK u \in Tiles : u = Part(i).tile
  BY <1>3, StreamFacts
<1>6. part_no'[u] = Part(i).part
  <2>1. part_no' = [part_no EXCEPT ![Part(i).tile] = Part(i).part]
    BY <1>2, SotArea
  <2> QED
    BY <1>3, <1>5, <2>1
<1>7. ASSUME NEW t \in Tiles, t # u PROVE nb_parts'[t] # 0 => nb_parts[t] # 0
  BY <1>1, <1>3, <1>5, <1>7 DEF OneMore
<1>8. \A t \in Tiles : CorrectedLater(t)'
  BY <1>1 DEF CorrectedLater
<1>9. ~ Finished(Part(i).tile)'
  <2>1. PICK j \in (i + 1)..N : Part(j).tile = u
    BY <1>1, <1>2, <1>5 DEF NeedsCorrection
  <2>2. j \in 1..N /\ i < j
    BY <1>3
  <2>3. Part(i).part < Part(j).part
    BY <1>3, <1>5, <2>1, <2>2, OrderOf
  <2>4. Part(j).part \in 0..(NumOf(u) - 1) /\ NumOf(u) \in Nat /\ Part(i).part \in Nat
    BY <1>3, <2>1, <2>2, OrderFacts, StreamFacts
  <2>5. Part(i).part + 1 # NumOf(u)
    BY <2>3, <2>4
  <2>6. Part(i)' = Part(i) /\ NumOf(u)' = NumOf(u)
    BY <1>1, SameStream
  <2>7. ~ (part_no'[u] + 1 = NumOf(u)')
    BY <1>6, <2>5, <2>6
  <2> QED
    BY <1>5, <2>6, <2>7 DEF Finished, NumOf, PartsOf
<1>10. UNCHANGED <<fileVars, apiVars, nr_tiles, image, can_decode>>
  BY <1>1
<1> QED
  BY <1>1, <1>2, <1>4, <1>5, <1>7, <1>8, <1>9, <1>10, NextArea

\* The last part of a tile.
LEMMA LastArea ==
  ASSUME IInv, IInv', NumbersInv, NumbersInv', Sound, wanted = -1,
         SyncInv, PlanInv, PlaceInv, DataInv, ImageInv, NEW i \in 1..N, TakeLast(i)
  PROVE  /\ SyncInv' /\ PlanInv' /\ PlaceInv' /\ DataInv' /\ ImageInv' /\ IdleInv'
         /\ pc' # "failed"
<1> USE DEF apiVars
<1>1. /\ Takes(i) /\ Completes(Part(i)) /\ ~ NeedsCorrection(i)
      /\ nb_parts' = [nb_parts EXCEPT ![Part(i).tile] = NbParts(Part(i))]
      /\ can_decode' = TRUE /\ tile' = Part(i).tile /\ state' = SodState(i)
      /\ at' = AfterSod(i) + 1 /\ pc' = "found"
      /\ UNCHANGED <<fileVars, corr, apiVars, nr_tiles, image>>
  BY Zenon DEF TakeLast
<1>2. /\ AtSot /\ i = Here /\ ReadSot(i)
      /\ InArea(Part(i).tile) /\ AfterSod(i) = i /\ SodState(i) = "TPHSOT"
      /\ \A t \in Tiles : t # Part(i).tile => data'[t] = data[t]
      /\ data'[Part(i).tile] = data[Part(i).tile] \o <<i>>
  BY <1>1, TakesArea
<1>3. /\ stream \in Streams /\ Ordered /\ (Truthful \/ OffByOne) /\ N \in Nat \ {0}
      /\ part_no \in [Tiles -> Nat \cup {-1}] /\ nb_parts \in [Tiles -> Nat]
      /\ Types /\ (stream.eoc \/ Spot6) /\ pc = "header" /\ state = "TPHSOT" /\ InCall
  BY <1>2, SoundFacts, StreamFacts, TypesOf DEF IInv, AtSot, PlaceInv, InCall
<1>4. PICK u \in Tiles : u = Part(i).tile
  BY <1>3, StreamFacts
<1>5. /\ planned' = planned
      /\ last_part' => i = N
      /\ part_no' = [part_no EXCEPT ![Part(i).tile] = Part(i).part]
      /\ \A t \in Tiles : InArea(t) \/ ~ planned =>
           \A j \in 1..N : Part(j).tile = t => (Part(j).part > part_no'[t] <=> j >= i + 1)
      /\ ~ planned => plan' = <<>>
      /\ planned => \A j, k \in 1..Len(plan') : j < k => plan'[j] < plan'[k]
      /\ planned => \A j \in 1..N :
           (\E k \in 1..Len(plan') : plan'[k] = j) <=> InArea(Part(j).tile) /\ j >= i + 1
  BY <1>2, SotArea
<1>6. /\ part_no'[u] = Part(i).part /\ nb_parts'[u] = NbParts(Part(i))
      /\ \A t \in Tiles : t # u => part_no'[t] = part_no[t] /\ nb_parts'[t] = nb_parts[t]
  BY <1>1, <1>3, <1>4, <1>5
<1>7. /\ N' = N /\ Tiles' = Tiles /\ Single' = Single /\ OffByOne' = OffByOne /\ stream' = stream
      /\ (\A k : Part(k)' = Part(k)) /\ (\A t : NumOf(t)' = NumOf(t))
      /\ (\A t : PartsOf(t)' = PartsOf(t))
  BY <1>1, SameStream DEF fileVars
<1>8. Part(i).part + 1 = NumOf(u) /\ (OffByOne => corr = 1)
  BY <1>1, <1>2, <1>3, <1>4, LastIsLast
<1>9. /\ \A t \in Tiles : Done(t)' <=> Done(t)
      /\ \A t \in Tiles : InArea(t)' <=> InArea(t)
      /\ InArea(u) => ~ Done(u)
      /\ \A t \in Tiles : ~ InArea(t) => data'[t] = <<>>
      /\ \A t \in Tiles : InArea(t) =>
           /\ InOrder(t)'
           /\ IF Done(t) THEN data'[t] = <<>> /\ Finished(t)' ELSE Counted(t)'
  BY <1>1, <1>2, <1>4, DataStep
<1>10. at' = i + 1 /\ state' = "TPHSOT" /\ tile' = u /\ pc' = "found" /\ can_decode'
  BY <1>1, <1>2, <1>4
<1>11. SyncInv'
  BY <1>1, <1>5, <1>7, <1>8, <1>9, <1>10 DEF SyncInv, Synced, CorrectedLater
<1>12. PlanInv'
  <2>1. CASE planned
    <3>1. ~ Single /\ stream.tlm # <<>> /\ used = "decoded"
      BY <2>1 DEF PlanInv
    <3>2. \A j \in 1..N : Part(j).tile \in Tiles
      BY <1>3, StreamFacts
    <3> QED
      BY <1>1, <1>5, <1>7, <1>9, <1>10, <2>1, <3>1, <3>2 DEF PlanInv
  <2>2. CASE ~ planned
    BY <1>5, <1>10, <2>2 DEF PlanInv
  <2> QED
    BY <2>1, <2>2
<1>13. PlaceInv'
  <2>1. i + 1 > N => i = N
    BY <1>3
  <2>2. last_part' => i + 1 > N
    BY <1>3, <1>5
  <2>3. i = N => stream.eoc
    <3> SUFFICES ASSUME i = N, Spot6 PROVE FALSE
      BY <1>3
    <3>1. nb_parts' \in [Tiles -> Nat]
      BY <1>7 DEF IInv, Types, TypeOK
    <3>2. Part(N).tile \in Lone
      BY <1>1, <1>3, <1>4, <1>6, <3>1, LoneLast
    <3>3. nb_parts'[u] = 0
      BY <1>4, <3>2 DEF Lone
    <3>4. NbParts(Part(i)) = Part(i).part + 1 /\ Part(i).part \in Nat
      BY <1>1, <1>3, StreamFacts DEF Completes
    <3>5. PICK p \in Nat : p = Part(i).part
      BY <3>4
    <3>6. nb_parts'[u] = p + 1
      BY <1>6, <3>4, <3>5
    <3> QED
      BY <3>3, <3>5, <3>6
  <2> QED
    BY <1>7, <1>10, <2>1, <2>2, <2>3 DEF PlaceInv
<1>14. DataInv'
  <2>1. ASSUME NEW t \in Tiles, InArea(t), Finished(t)', nb_parts'[t] # 0, ~ Done(t), t # u
        PROVE  FALSE
    <3>1. part_no'[t] = part_no[t] /\ nb_parts[t] # 0
      BY <1>6, <2>1
    <3>2. Finished(t)
      BY <1>7, <2>1, <3>1 DEF Finished
    <3> QED
      BY <1>3, <2>1, <3>1, <3>2 DEF DataInv
  <2>2. Finished(u)'
    BY <1>6, <1>7, <1>8 DEF Finished
  <2>3. InArea(tile)' /\ Finished(tile)' /\ ~ Done(tile)'
    <3>1. tile' = u /\ InArea(u)' /\ Finished(u)' /\ ~ Done(u)'
      BY <1>2, <1>4, <1>9, <1>10, <2>2
    <3> QED
      BY <3>1 DEF InArea, Finished, Done, NumOf, PartsOf
  <2> QED
    BY <1>7, <1>9, <1>10, <2>1, <2>3 DEF DataInv
<1>15. ImageInv'
  BY <1>1, <1>3, <1>7 DEF ImageInv, Complete, InArea, InCall, IsFast, fileVars
<1>16. IdleInv'
  BY <1>10 DEF IdleInv
<1> QED
  BY <1>10, <1>11, <1>12, <1>13, <1>14, <1>15, <1>16

\* Every step of the loop, unless a SOT is refused.
LEMMA PartArea ==
  ASSUME IInv, IInv', NumbersInv, NumbersInv', Sound, wanted = -1,
         SyncInv, PlanInv, PlaceInv, DataInv, ImageInv, PartNext
  PROVE  \/ SotFails
         \/ /\ SyncInv' /\ PlanInv' /\ PlaceInv' /\ DataInv' /\ ImageInv' /\ IdleInv'
            /\ pc' # "failed"
<1>1. stream \in Streams /\ Types /\ CallInv /\ N \in Nat \ {0} /\ plan \in Seq(1..N)
  BY TypesOf, StreamFacts DEF IInv
<1>2. CASE HeaderEnds
  <2>1. pc = "header" /\ Here > N
    BY <1>2 DEF HeaderEnds
  <2>2. plan = <<>> => at <= N
    BY <2>1 DEF PlanInv
  <2>3. CASE plan = <<>>
    <3>1. at \in Nat
      BY <1>1, TypesOf
    <3> QED
      BY <1>1, <2>1, <2>2, <2>3, <3>1 DEF Here
  <2>4. CASE plan # <<>>
    <3>1. Head(plan) \in 1..N
      BY <1>1, <2>4, HeadTailProperties
    <3> QED
      BY <1>1, <2>1, <2>4, <3>1 DEF Here
  <2> QED
    BY <2>3, <2>4
<1>3. ASSUME AtSot, Skips(Part(Here)), ReadSot(Here), last_part' PROVE FALSE
  <2>1. PICK i \in 1..N : i = Here
    BY <1>1, <1>3, HereInside
  <2>2. InArea(Part(i).tile)
    BY <1>3, <2>1, SotArea
  <2> QED
    BY <1>3, <2>1, <2>2 DEF Skips
<1>4. ~ IsCut(Here)
  BY <1>1, SoundFacts DEF IsCut
<1>5. ASSUME NEW i \in 1..N, TakeAndJump(i) PROVE FALSE
  <2>1. wanted = Part(i).tile
    BY <1>5, Zenon DEF TakeAndJump, JumpsToNext
  <2>2. Part(i).tile \in Nat
    BY <1>1, StreamFacts DEF Tiles
  <2> QED
    BY <2>1, <2>2
<1>6. CASE SkipNothing
  BY <1>3, <1>6, Zenon DEF SkipNothing
<1>7. CASE SkipPart
  BY <1>7, SkipPartArea
<1>8. CASE SkipFails \/ SodFails
  BY <1>4, <1>8, Zenon DEF SkipFails, SodFails
<1>9. CASE \E i \in 1..N :
             TakeAndJump(i) \/ TakeAndGoOn(i) \/ TakeLast(i) \/ TakeAndCorrect(i)
  BY <1>5, <1>9, GoOnArea, LastArea, CorrectArea
<1>10. CASE TakeUnwanted
  BY <1>10 DEF TakeUnwanted, PlaceInv
<1> QED
  BY <1>2, <1>6, <1>7, <1>8, <1>9, <1>10 DEF PartNext

-----------------------------------------------------------------------------
(***************************************************************************)
(* The tiles of an area                                                    *)
(***************************************************************************)
\* A tile that has been counted to its last tile-part is whole.
LEMMA FinishedTile ==
  ASSUME Types, Ordered, NEW t \in Tiles, InOrder(t), Counted(t), Finished(t)
  PROVE  Whole(t) /\ data[t] = PartsOf(t) /\ data[t] # <<>>
<1>1. Whole(t)
  BY DEF Counted, Finished, Whole
<1> QED
  BY <1>1, WholeTile

\* A tile of which no tile-part lies ahead has all it needs, or is done.
LEMMA MetTile ==
  ASSUME IInv, Sound, SyncInv, DataInv, InCall, NEW t \in Tiles, InArea(t),
         \A j \in 1..N : Part(j).tile = t => ~ (j >= at)
  PROVE  /\ Finished(t)
         /\ ~ Done(t) => data[t] = PartsOf(t) /\ data[t] # <<>>
<1>1. /\ stream \in Streams /\ Types /\ Ordered
      /\ part_no \in [Tiles -> Nat \cup {-1}] /\ data \in [Tiles -> Seq(1..N)]
  BY SoundFacts, TypesOf DEF IInv
<1>a. at \in Nat
  BY TypesOf DEF IInv
<1>2. CASE Done(t)
  BY <1>2 DEF DataInv
<1>3. CASE ~ Done(t)
  <2>1. InOrder(t) /\ Counted(t)
    BY <1>3 DEF DataInv
  <2>2. PICK m \in Nat \cup {-1} : m = part_no[t]
    BY <1>1
  <2>3. PICK d \in Seq(1..N) : d = data[t]
    BY <1>1
  <2>4. Len(d) = m + 1
    BY <2>1, <2>2, <2>3 DEF Counted
  <2>5. \A k \in 1..Len(d) : Part(d[k]).tile = t /\ Part(d[k]).part = k - 1
    BY <2>1, <2>3 DEF InOrder
  <2>6. \A j \in 1..N : Part(j).tile = t => (Part(j).part > m <=> j >= at) /\ ~ (j >= at)
    BY <2>2 DEF SyncInv, Synced
  <2>7. m + 1 = NumOf(t)
    BY <1>1, <1>a, <2>4, <2>5, <2>6, AllMet
  <2>8. Finished(t)
    BY <2>2, <2>7 DEF Finished
  <2> QED
    BY <1>1, <2>1, <2>8, FinishedTile
<1> QED
  BY <1>2, <1>3

\* The tile that is decoded next.
LEMMA FindArea ==
  ASSUME IInv, IInv', Sound, wanted = -1,
         SyncInv, PlanInv, PlaceInv, DataInv, ImageInv, FindTile
  PROVE  /\ SyncInv' /\ PlanInv' /\ PlaceInv' /\ DataInv' /\ ImageInv' /\ IdleInv'
         /\ pc' # "failed"
<1> USE DEF apiVars, tileVars, planVars
<1>1. /\ pc = "found" /\ TileFound /\ pc' = "decode"
      /\ tile' = IF can_decode THEN tile ELSE Min(Candidates)
      /\ UNCHANGED <<fileVars, state, at, can_decode, last_part, corr, checked,
                     planVars, tileVars, apiVars, nr_tiles, image>>
  BY DEF FindTile
<1>2. /\ N' = N /\ Tiles' = Tiles /\ Single' = Single /\ OffByOne' = OffByOne /\ stream' = stream
      /\ (\A k : Part(k)' = Part(k)) /\ (\A t : NumOf(t)' = NumOf(t))
      /\ (\A t : PartsOf(t)' = PartsOf(t))
  BY <1>1, SameStream DEF fileVars
<1>3. /\ tile \in Tiles /\ Tiles \subseteq Nat /\ N \in Nat /\ at \in Nat /\ InCall /\ Types
      /\ stream \in Streams /\ data \in [Tiles -> Seq(1..N)]
  BY <1>1, TypesOf, StreamFacts DEF IInv, Tiles, InCall
<1>4. SyncInv'
  BY <1>1, <1>2 DEF SyncInv, Synced, CorrectedLater, InArea
<1>5. PlanInv'
  <2>1. (planned => can_decode) /\ pc' = "decode"
    BY <1>1 DEF PlanInv
  <2> QED
    BY <1>1, <1>2, <2>1 DEF PlanInv, InArea
<1>6. PlaceInv'
  BY <1>1, <1>2 DEF PlaceInv
<1>7. ImageInv'
  BY <1>1, <1>2 DEF ImageInv, Complete, InArea, InCall, IsFast, fileVars
<1>8. IdleInv'
  BY <1>1 DEF IdleInv
<1>9. /\ tile' \in Tiles /\ InArea(tile') /\ Finished(tile') /\ ~ Done(tile')
      /\ state = "TPHSOT" => tile' = tile
      /\ state = "EOC" => \A v \in Tiles : v < tile' => data[v] = <<>>
  <2>1. CASE can_decode
    <3>1. tile' = tile /\ state = "TPHSOT"
      BY <1>1, <2>1 DEF PlaceInv
    <3> QED
      BY <1>1, <1>3, <2>1, <3>1 DEF DataInv
  <2>2. CASE ~ can_decode
    <3>1. state = "EOC" /\ at > N
      BY <1>1, <2>2 DEF PlaceInv
    <3>2. Candidates \in SUBSET Nat /\ Candidates # {} /\ Candidates \subseteq Tiles
      BY <1>1, <1>3, <2>2 DEF TileFound, Candidates
    <3>3. PICK m : m = Min(Candidates)
      OBVIOUS
    <3>4. m \in Candidates /\ \A x \in Candidates : m <= x
      BY <3>2, <3>3, MinIn
    <3>5. tile' = m /\ m \in Tiles /\ m >= tile /\ data[m] # <<>>
      BY <1>1, <2>2, <3>2, <3>3, <3>4 DEF Candidates
    <3>6. InArea(m) /\ ~ Done(m)
      BY <1>3, <3>5 DEF DataInv
    <3>7. Finished(m)
      <4>1. \A j \in 1..N : ~ (j >= at)
        BY <1>3, <3>1
      <4> QED
        BY <1>3, <3>5, <3>6, <4>1, MetTile
    <3>8. ASSUME NEW v \in Tiles, v < m PROVE data[v] = <<>>
      <4>1. CASE v < tile
        BY <1>3, <3>1, <4>1 DEF DataInv
      <4>2. CASE ~ (v < tile)
        <5>1. ~ (m <= v) /\ v >= tile
          BY <1>3, <3>5, <3>8, <4>2
        <5>2. v \notin Candidates
          BY <3>4, <5>1
        <5> QED
          BY <5>1, <5>2 DEF Candidates
      <4> QED
        BY <4>1, <4>2
    <3> QED
      BY <3>1, <3>5, <3>6, <3>7, <3>8
  <2> QED
    BY <2>1, <2>2
<1>10. DataInv'
  <2>1. PICK v \in Tiles : v = tile'
    BY <1>9
  <2>2. /\ InArea(v) /\ Finished(v) /\ ~ Done(v)
        /\ state = "TPHSOT" => v = tile
        /\ state = "EOC" => \A t \in Tiles : t < v => data[t] = <<>>
    BY <1>9, <2>1 DEF InArea, Finished, Done, NumOf, PartsOf
  <2>3. InArea(tile)' /\ Finished(tile)' /\ ~ Done(tile)'
    BY <1>1, <1>2, <2>1, <2>2 DEF InArea, Finished, Done, NumOf, PartsOf
  <2>4. \A t \in Tiles : /\ InArea(t)' <=> InArea(t)
                         /\ Done(t)' <=> Done(t)
                         /\ Finished(t)' <=> Finished(t)
                         /\ Counted(t)' <=> Counted(t)
                         /\ InOrder(t)' <=> InOrder(t)
    BY <1>1, <1>2 DEF InArea, Done, Finished, Counted, InOrder
  <2> QED
    BY <1>1, <1>2, <1>3, <2>1, <2>2, <2>3, <2>4 DEF DataInv
<1> QED
  BY <1>1, <1>4, <1>5, <1>6, <1>7, <1>8, <1>10

\* There is no tile left, and none is missing.
LEMMA NoTileArea ==
  ASSUME IInv, IInv', Sound, wanted = -1,
         SyncInv, PlanInv, PlaceInv, DataInv, ImageInv, NoTile
  PROVE  /\ SyncInv' /\ PlanInv' /\ PlaceInv' /\ DataInv' /\ ImageInv' /\ IdleInv'
         /\ pc' # "failed"
<1> USE DEF apiVars, tileVars, planVars
<1>1. /\ pc = "found" /\ ~ can_decode /\ Candidates = {}
      /\ IF op = "fast" THEN pc' = "failed" ELSE Return(image)
      /\ UNCHANGED <<fileVars, state, at, tile, can_decode, last_part, corr, checked,
                     planVars, tileVars, indexVars, apiVars, nr_tiles, image>>
  BY DEF NoTile, TileFound
<1>2. /\ N' = N /\ Tiles' = Tiles /\ Single' = Single /\ OffByOne' = OffByOne /\ stream' = stream
      /\ (\A k : Part(k)' = Part(k)) /\ (\A t : NumOf(t)' = NumOf(t))
      /\ (\A t : PartsOf(t)' = PartsOf(t))
  BY <1>1, SameStream DEF fileVars
<1>3. /\ tile \in Tiles /\ Tiles \subseteq Nat /\ N \in Nat /\ at \in Nat /\ InCall /\ Types
      /\ stream \in Streams /\ area \in Areas
  BY <1>1, TypesOf, StreamFacts DEF IInv, Tiles, InCall
<1>4. state = "EOC" /\ at > N
  BY <1>1 DEF PlaceInv
<1>5. \A t \in Tiles : data[t] = <<>>
  <2> SUFFICES ASSUME NEW t \in Tiles PROVE data[t] = <<>>
    OBVIOUS
  <2>1. t < tile => data[t] = <<>>
    BY <1>3, <1>4 DEF DataInv
  <2>2. t >= tile => data[t] = <<>>
    BY <1>1 DEF Candidates
  <2> QED
    BY <1>3, <2>1, <2>2
<1>6. \A t \in Tiles : InArea(t) => Done(t)
  <2>1. \A j \in 1..N : ~ (j >= at)
    BY <1>3, <1>4
  <2> QED
    BY <1>3, <1>5, <2>1, MetTile
<1>7. area.from \in Tiles /\ InArea(area.from)
  BY <1>3 DEF Areas, InArea, Tiles
<1>8. image # <<>>
  BY <1>6, <1>7 DEF Done
<1>9. ~ Single /\ op # "fast"
  BY <1>3, <1>8 DEF ImageInv, IsFast
<1>10. pc' = "idle"
  BY <1>1, <1>8, <1>9 DEF Return
<1>11. SyncInv'
  BY <1>1, <1>2 DEF SyncInv, Synced, CorrectedLater, InArea
<1>12. PlanInv'
  BY <1>1, <1>2, <1>10 DEF PlanInv, InArea
<1>13. PlaceInv'
  BY <1>1, <1>2, <1>10 DEF PlaceInv
<1>14. ImageInv'
  BY <1>1, <1>2, <1>10 DEF ImageInv, Complete, InArea, InCall
<1>15. DataInv'
  BY <1>10 DEF DataInv, InCall
<1>16. IdleInv'
  BY <1>1, <1>2, <1>5, <1>6, <1>9 DEF IdleInv, InArea, Done
<1> QED
  BY <1>10, <1>11, <1>12, <1>13, <1>14, <1>15, <1>16

\* A tile is decoded: it is of the area, whole, and new to the image.
LEMMA DecodedArea ==
  ASSUME IInv, Sound, wanted = -1, SyncInv, PlanInv, PlaceInv, DataInv, ImageInv, DecodesTile
  PROVE  /\ pc = "decode" /\ InArea(tile) /\ Finished(tile) /\ ~ Done(tile)
         /\ InOrder(tile) /\ Whole(tile) /\ data[tile] # <<>>
         /\ image' # <<>> /\ Len(image') = Len(image) + 1
         /\ \A t \in Tiles : Done(t)' <=> Done(t) \/ t = tile
         /\ \A t \in Tiles : InArea(t)' <=> InArea(t)
         /\ \A k \in DOMAIN image' :
              image'[k].data = PartsOf(image'[k].tile) /\ InArea(image'[k].tile)
         /\ \A j, k \in DOMAIN image' : image'[j].tile = image'[k].tile => j = k
         /\ state' = "TPHSOT" \/ (state' = "EOC" /\ at > N)
         /\ state' = "TPHSOT" => state = "TPHSOT" /\ ~ (at > N)
         /\ state' = "EOC" => tile' = 0 \/ (tile' = tile /\ state = "EOC")
         /\ ~ can_decode'
         /\ Single => state' = "EOC" /\ tile = 0 /\ Tiles = {0}
         /\ used = "decoded"
<1>1. /\ pc = "decode" /\ InCall
      /\ can_decode' = FALSE
      /\ state' = IF MeetsEOC THEN "EOC" ELSE state
      /\ tile' = IF MeetsEOC THEN 0 ELSE tile
      /\ image' = IF InArea(tile) THEN Append(image, [tile |-> tile, data |-> data[tile]])
                                  ELSE image
      /\ UNCHANGED fileVars /\ area' = area
  BY DEF DecodesTile, InCall, apiVars
<1>2. /\ tile \in Tiles /\ Types /\ Ordered /\ N \in Nat \ {0} /\ at \in Int
      /\ image \in Seq([tile : Tiles, data : Seq(1..N)]) /\ area \in Areas
      /\ stream \in Streams /\ data \in [Tiles -> Seq(1..N)]
  <2>1. at \in 0..(N + 1) /\ stream \in Streams
    BY TypesOf DEF IInv
  <2>2. N \in Nat \ {0}
    BY <2>1, StreamFacts
  <2> QED
    BY <2>1, <2>2, SoundFacts, TypesOf DEF IInv
<1>3. InArea(tile) /\ Finished(tile) /\ ~ Done(tile) /\ InOrder(tile) /\ Counted(tile)
  BY <1>1, <1>2 DEF DataInv
<1>4. Whole(tile) /\ data[tile] = PartsOf(tile) /\ data[tile] # <<>>
  BY <1>2, <1>3, FinishedTile
<1>5. used = "decoded"
  BY <1>1 DEF IInv, ModeInv
<1>6. /\ \A k : Part(k)' = Part(k)
      /\ \A t : PartsOf(t)' = PartsOf(t)
      /\ \A t : InArea(t)' <=> InArea(t)
  BY <1>1, SameStream DEF InArea
<1>7. PICK e : e = [tile |-> tile, data |-> data[tile]]
  OBVIOUS
<1>8. image' = Append(image, e) /\ e.tile = tile /\ e.data = PartsOf(tile)
  BY <1>1, <1>3, <1>4, <1>7
<1>9. PICK n \in Nat : n = Len(image)
  BY <1>2
<1>10. /\ Len(image') = n + 1 /\ image' # <<>> /\ DOMAIN image' = 1..(n + 1)
       /\ DOMAIN image = 1..n
       /\ image'[n + 1] = e
       /\ \A k \in 1..n : image'[k] = image[k]
  <2>1. e \in [tile : Tiles, data : Seq(1..N)]
    BY <1>2, <1>7
  <2>2. /\ Len(Append(image, e)) = Len(image) + 1
        /\ Append(image, e)[Len(image) + 1] = e
        /\ \A k \in 1..Len(image) : Append(image, e)[k] = image[k]
        /\ Append(image, e) \in Seq([tile : Tiles, data : Seq(1..N)])
        /\ Append(image, e) # <<>>
    <3>1. PICK T : T = [tile : Tiles, data : Seq(1..N)]
      OBVIOUS
    <3>2. image \in Seq(T) /\ e \in T
      BY <1>2, <2>1, <3>1
    <3>3. /\ Append(image, e) \in Seq(T) /\ Append(image, e) # <<>>
          /\ Len(Append(image, e)) = Len(image) + 1
          /\ Append(image, e)[Len(image) + 1] = e
          /\ \A k \in 1..Len(image) : Append(image, e)[k] = image[k]
      BY <3>2, AppendProperties
    <3> QED
      BY <3>1, <3>3
  <2> QED
    BY <1>2, <1>8, <1>9, <2>2, LenProperties
<1>11. \A k \in 1..(n + 1) : k \in 1..n \/ k = n + 1
  BY <1>9
<1>12. ASSUME NEW t \in Tiles PROVE Done(t)' <=> Done(t) \/ t = tile
  BY <1>8, <1>9, <1>10, <1>11 DEF Done
<1>13. /\ \A k \in 1..n : image[k].data = PartsOf(image[k].tile) /\ InArea(image[k].tile)
       /\ \A j, k \in 1..n : image[j].tile = image[k].tile => j = k
       /\ \A k \in 1..n : image[k].tile # tile
  BY <1>3, <1>5, <1>10 DEF ImageInv, Complete, Done
<1>14. ASSUME NEW k \in 1..(n + 1)
       PROVE  image'[k].data = PartsOf(image'[k].tile) /\ InArea(image'[k].tile)
  <2>1. PICK v : v = image'[k].tile
    OBVIOUS
  <2>2. image'[k].data = PartsOf(v) /\ InArea(v)
    BY <1>3, <1>8, <1>10, <1>11, <1>13, <2>1
  <2> QED
    BY <2>1, <2>2
<1>15. \A j, k \in 1..(n + 1) : image'[j].tile = image'[k].tile => j = k
  BY <1>8, <1>10, <1>11, <1>13
<1>16. /\ state' = "TPHSOT" \/ (state' = "EOC" /\ at > N)
       /\ state' = "TPHSOT" => state = "TPHSOT" /\ ~ (at > N)
       /\ state' = "EOC" => tile' = 0 \/ (tile' = tile /\ state = "EOC")
  BY <1>1 DEF PlaceInv, MeetsEOC
<1>17. ASSUME Single PROVE state' = "EOC" /\ tile = 0 /\ Tiles = {0}
  <2>1. Tiles = {0} /\ tile = 0
    BY <1>2, <1>17, SingleArea
  <2>2. ASSUME NEW j \in 1..N, j >= at PROVE FALSE
    <3>1. Part(j).tile = tile
      BY <1>2, <2>1, StreamFacts
    <3>2. Part(j).part > part_no[tile]
      BY <1>2, <1>3, <2>2, <3>1 DEF SyncInv, Synced
    <3>3. Part(j).part \in 0..(NumOf(tile) - 1) /\ NumOf(tile) \in Nat
      BY <1>2, <3>1, OrderFacts
    <3>4. PICK m \in Nat \cup {-1} : m = part_no[tile]
      BY <1>2, TypesOf
    <3>5. m + 1 = NumOf(tile) /\ Part(j).part > m
      BY <1>3, <3>2, <3>4 DEF Finished
    <3> QED
      BY <3>3, <3>5
  <2>3. at > N
    <3>1. N \in 1..N
      BY <1>2
    <3>2. ~ (N >= at)
      BY <2>2, <3>1
    <3> QED
      BY <1>2, <3>2
  <2> QED
    BY <1>16, <2>1, <2>3
<1> QED
  BY <1>1, <1>3, <1>4, <1>5, <1>6, <1>9, <1>10, <1>12, <1>14, <1>15, <1>16, <1>17

\* The only tile, all of it.
LEMMA FastArea ==
  ASSUME IInv, IInv', Sound, wanted = -1,
         SyncInv, PlanInv, PlaceInv, DataInv, ImageInv, FastTile
  PROVE  /\ SyncInv' /\ PlanInv' /\ PlaceInv' /\ DataInv' /\ ImageInv' /\ IdleInv'
         /\ pc' # "failed"
<1> USE DEF apiVars, tileVars, planVars
<1>1. /\ op = "fast" /\ DecodesTile /\ pc' = "idle"
      /\ UNCHANGED <<at, planVars, data, nr_tiles>>
      /\ UNCHANGED <<fileVars, last_part, corr, checked, part_no, nb_parts, indexVars, apiVars>>
  BY DEF FastTile, DecodesTile
<1>2. /\ pc = "decode" /\ InArea(tile) /\ Finished(tile)
      /\ InOrder(tile) /\ Whole(tile) /\ data[tile] # <<>>
      /\ \A t \in Tiles : Done(t)' <=> Done(t) \/ t = tile
      /\ \A t \in Tiles : InArea(t)' <=> InArea(t)
      /\ \A k \in DOMAIN image' :
           image'[k].data = PartsOf(image'[k].tile) /\ InArea(image'[k].tile)
      /\ \A j, k \in DOMAIN image' : image'[j].tile = image'[k].tile => j = k
      /\ state' = "TPHSOT" \/ (state' = "EOC" /\ at > N)
      /\ ~ can_decode' /\ used = "decoded"
      /\ Single => state' = "EOC" /\ tile = 0 /\ Tiles = {0}
  BY <1>1, DecodedArea
<1>3. Single /\ ~ area.inside
  BY <1>1, <1>2 DEF ImageInv, IsFast, InCall
<1>4. /\ N' = N /\ Tiles' = Tiles /\ Single' = Single /\ OffByOne' = OffByOne /\ stream' = stream
      /\ (\A k : Part(k)' = Part(k)) /\ (\A t : NumOf(t)' = NumOf(t))
      /\ (\A t : PartsOf(t)' = PartsOf(t))
  BY <1>1, SameStream DEF fileVars
<1>5. SyncInv'
  BY <1>1, <1>4 DEF SyncInv, Synced, CorrectedLater, InArea
<1>6. PlanInv'
  BY <1>1, <1>3, <1>4 DEF PlanInv
<1>7. PlaceInv'
  BY <1>1, <1>2, <1>3, <1>4 DEF PlaceInv
<1>8. ImageInv'
  <2>1. ASSUME NEW k \in DOMAIN image' PROVE Complete(k)' /\ InArea(image[k].tile)'
    BY <1>1, <1>2 DEF Complete, InArea, PartsOf, fileVars, N, Part
  <2> QED
    BY <1>1, <1>2, <2>1 DEF ImageInv, InCall
<1>9. DataInv'
  BY <1>1 DEF DataInv, InCall
<1>10. IdleInv'
  <2>1. \A t \in Tiles : Done(t)'
    BY <1>2, <1>3
  <2>2. InOrder(0)' /\ Whole(0)' /\ Finished(0)' /\ data'[0] # <<>>
    BY <1>1, <1>2, <1>3, <1>4 DEF InOrder, Whole, Finished
  <2> QED
    BY <1>1, <1>2, <1>3, <1>4, <2>1, <2>2 DEF IdleInv
<1> QED
  BY <1>1, <1>5, <1>6, <1>7, <1>8, <1>9, <1>10

\* As many different tiles as there are, are all of them.
LEMMA AllTiles ==
  ASSUME NEW n \in Nat \ {0}, NEW img, \A k \in 1..n : img[k].tile \in 0..(n - 1),
         \A j, k \in 1..n : img[j].tile = img[k].tile => j = k,
         NEW t \in 0..(n - 1)
  PROVE  \E k \in 1..n : img[k].tile = t
<1> SUFFICES ASSUME \A k \in 1..n : img[k].tile # t PROVE FALSE
  OBVIOUS
<1>1. PICK T : T = 0..(n - 1)
  OBVIOUS
<1>2. IsFiniteSet(T) /\ Cardinality(T) = n
  BY <1>1, FS_Interval
<1>3. IsFiniteSet(T \ {t}) /\ Cardinality(T \ {t}) = n - 1
  <2>1. t \in T
    BY <1>1
  <2>2. /\ IsFiniteSet(T \ {t})
        /\ Cardinality(T \ {t}) = IF t \in T THEN Cardinality(T) - 1 ELSE Cardinality(T)
    BY <1>2, FS_RemoveElement
  <2> QED
    BY <1>2, <2>1, <2>2
<1>4. IsFiniteSet(1..n) /\ Cardinality(1..n) = n
  BY FS_Interval
<1>5. PICK f : f = [k \in 1..n |-> img[k].tile]
  OBVIOUS
<1>6. f \in [1..n -> T \ {t}]
  BY <1>1, <1>5
<1>7. \E x, y \in 1..n : x # y /\ f[x] = f[y]
  <2>1. Cardinality(T \ {t}) < Cardinality(1..n)
    BY <1>3, <1>4
  <2> QED
    BY <1>3, <1>4, <1>6, <2>1, FS_PigeonHole
<1> QED
  BY <1>5, <1>7

\* A tile of an area, after which there may be more of them.
LEMMA NextTileArea ==
  ASSUME IInv, IInv', NumbersInv, Sound, wanted = -1,
         SyncInv, PlanInv, PlaceInv, DataInv, ImageInv, AreaTile
  PROVE  /\ SyncInv' /\ PlanInv' /\ PlaceInv' /\ DataInv' /\ ImageInv' /\ IdleInv'
         /\ pc' # "failed"
<1> USE DEF apiVars, tileVars, planVars
<1> DEFINE exhausted == planned /\ plan = <<>>
           stops == nr_tiles' = stream.tiles
<1>1. /\ op = "tiles" /\ DecodesTile
      /\ IF Single /\ area.inside THEN UNCHANGED data ELSE Forget(tile)
      /\ nr_tiles' = nr_tiles + 1
      /\ UNCHANGED planVars
      /\ UNCHANGED <<fileVars, last_part, corr, checked, part_no, nb_parts, indexVars, apiVars>>
  BY DEF AreaTile, DecodesTile
<1>2. /\ pc = "decode" /\ InArea(tile) /\ Finished(tile) /\ ~ Done(tile)
      /\ InOrder(tile) /\ Whole(tile) /\ data[tile] # <<>>
      /\ image' # <<>> /\ Len(image') = Len(image) + 1
      /\ \A t \in Tiles : Done(t)' <=> Done(t) \/ t = tile
      /\ \A t \in Tiles : InArea(t)' <=> InArea(t)
      /\ \A k \in DOMAIN image' :
           image'[k].data = PartsOf(image'[k].tile) /\ InArea(image'[k].tile)
      /\ \A j, k \in DOMAIN image' : image'[j].tile = image'[k].tile => j = k
      /\ state' = "TPHSOT" \/ (state' = "EOC" /\ at > N)
      /\ state' = "TPHSOT" => state = "TPHSOT" /\ ~ (at > N)
      /\ state' = "EOC" => tile' = 0 \/ (tile' = tile /\ state = "EOC")
      /\ ~ can_decode' /\ used = "decoded"
      /\ Single => state' = "EOC" /\ tile = 0 /\ Tiles = {0}
  BY <1>1, DecodedArea
<1>3. /\ at' = IF exhausted /\ ~ stops THEN N + 1 ELSE at
      /\ IF stops \/ exhausted THEN Return(image') ELSE EnterHeader(state')
  BY <1>2, Zenon DEF AreaTile
<1>4. /\ stops \/ exhausted => pc' = "idle"
      /\ ~ (stops \/ exhausted) => pc' = IF state' = "EOC" THEN "found" ELSE "header"
  BY <1>2, <1>3 DEF Return, EnterHeader
<1> HIDE DEF exhausted, stops
<1>5. /\ N' = N /\ Tiles' = Tiles /\ Single' = Single /\ OffByOne' = OffByOne /\ stream' = stream
      /\ (\A k : Part(k)' = Part(k)) /\ (\A t : NumOf(t)' = NumOf(t))
      /\ (\A t : PartsOf(t)' = PartsOf(t))
  BY <1>1, SameStream DEF fileVars
<1>6. /\ tile \in Tiles /\ Types /\ Ordered /\ stream.tiles \in Nat \ {0}
      /\ stream \in Streams /\ data \in [Tiles -> Seq(1..N)] /\ N \in Nat \ {0}
  BY SoundFacts, StreamFacts, TypesOf DEF IInv
<1>7. at \in Nat /\ nr_tiles \in Nat /\ nr_tiles < stream.tiles
  BY <1>1, <1>2, <1>6, TypesOf DEF IInv, CallInv, InCall
<1>8. InCall /\ nr_tiles = Len(image)
  BY <1>1, <1>2 DEF InCall, ImageInv
<1>9. Single => stops
  BY <1>1, <1>2, <1>6, <1>7, <1>8 DEF Single, stops
<1>10. ASSUME exhausted
       PROVE  /\ \A j \in 1..N : InArea(Part(j).tile) => ~ (j >= at)
              /\ planned /\ plan = <<>> /\ ~ Single /\ stream.tlm # <<>>
              /\ state = "TPHSOT"
  BY <1>2, <1>10 DEF PlanInv, PlaceInv, exhausted
<1>11. \A t \in Tiles : /\ Finished(t)' <=> Finished(t)
                        /\ t # tile => data'[t] = data[t]
                        /\ data'[t] = data[t] \/ data'[t] = <<>>
                        /\ ~ Single => data'[tile] = <<>>
  BY <1>1, <1>5, <1>6 DEF Finished, Forget
<1>12. SyncInv'
  <2>1. \A t \in Tiles : InArea(t) => CorrectedLater(t)'
    BY <1>1, <1>5 DEF SyncInv, CorrectedLater
  <2>2. CASE exhausted
    <3>1. \A t \in Tiles : InArea(t) => Synced(t)'
      <4> SUFFICES ASSUME NEW t \in Tiles, InArea(t), NEW j \in 1..N, Part(j).tile = t
                   PROVE  Part(j).part > part_no[t] <=> j >= at'
        BY <1>1, <1>5 DEF Synced
      <4>1. ~ (j >= at) /\ ~ (j >= N + 1)
        BY <1>6, <1>10, <2>2
      <4>2. ~ (j >= at')
        BY <1>3, <4>1 DEF exhausted
      <4> QED
        BY <4>1, <4>2 DEF SyncInv, Synced
    <3> QED
      BY <1>1, <1>2, <1>5, <1>10, <2>1, <2>2, <3>1 DEF SyncInv
  <2>3. CASE ~ exhausted
    <3>1. at' = at
      BY <1>3, <2>3 DEF exhausted
    <3> QED
      BY <1>1, <1>2, <1>5, <2>1, <3>1 DEF SyncInv, Synced
  <2> QED
    BY <2>2, <2>3
<1>13. PlanInv'
  <2>1. CASE planned
    <3>1. \A j \in 1..N : Part(j).tile \in Tiles
      BY <1>6, StreamFacts
    <3>2. ~ Single /\ stream.tlm # <<>>
      BY <2>1 DEF PlanInv
    <3>3. CASE exhausted
      <4>1. pc' = "idle"
        BY <1>4, <3>3
      <4>2. \A j \in 1..N : ~ (InArea(Part(j).tile) /\ j >= at')
        <5> SUFFICES ASSUME NEW j \in 1..N, InArea(Part(j).tile) PROVE ~ (j >= at')
          OBVIOUS
        <5>1. ~ (j >= at) /\ ~ (j >= N + 1)
          BY <1>6, <1>10, <3>3
        <5> QED
          BY <1>3, <5>1 DEF exhausted
      <4>3. plan' = <<>> /\ planned'
        BY <1>1, <1>10, <3>3
      <4> QED
        BY <1>1, <1>2, <1>5, <2>1, <3>1, <3>2, <4>1, <4>2, <4>3 DEF PlanInv
    <3>4. CASE ~ exhausted
      <4>1. at' = at /\ plan # <<>>
        BY <1>3, <2>1, <3>4 DEF exhausted
      <4>2. state' # "EOC"
        <5> SUFFICES ASSUME at > N PROVE FALSE
          BY <1>2
        <5>1. PICK q \in Seq(1..N) : q = plan
          BY <1>6, TypesOf
        <5>2. 1 \in 1..Len(q) /\ q[1] \in 1..N
          <6>1. Len(q) \in Nat \ {0}
            BY <4>1, <5>1, EmptySeq
          <6>2. 1 \in 1..Len(q)
            BY <6>1
          <6> QED
            BY <5>1, <6>2, ElementOfSeq
        <5>3. PICK j \in 1..N : j = q[1]
          BY <5>2
        <5>4. j >= at
          BY <2>1, <5>1, <5>2, <5>3 DEF PlanInv
        <5> QED
          BY <1>6, <1>7, <5>4
      <4>3. pc' \in {"idle", "header"}
        BY <1>4, <4>2
      <4> QED
        BY <1>1, <1>2, <1>5, <2>1, <3>1, <3>2, <4>1, <4>3 DEF PlanInv
    <3> QED
      BY <3>3, <3>4
  <2>2. CASE ~ planned
    <3>1. at' = at /\ plan' = <<>> /\ ~ planned'
      BY <1>1, <1>3, <2>2 DEF PlanInv, exhausted
    <3>2. pc' = "header" => at <= N
      BY <1>2, <1>4, <1>6, <1>7
    <3> QED
      BY <1>5, <3>1, <3>2 DEF PlanInv
  <2> QED
    BY <2>1, <2>2
<1>14. PlaceInv'
  <2>1. at' = at \/ (at' = N + 1 /\ stream.eoc)
    <3>1. exhausted => stream.eoc
      BY <1>6, <1>10, SoundFacts
    <3> QED
      BY <1>3, <3>1
  <2>2. N + 1 > N
    BY <1>6
  <2> QED
    BY <1>1, <1>2, <1>4, <1>5, <2>1, <2>2 DEF PlaceInv
<1>15. ImageInv'
  <2>1. ASSUME NEW k \in DOMAIN image' PROVE Complete(k)' /\ InArea(image[k].tile)'
    BY <1>1, <1>2 DEF Complete, InArea, PartsOf, fileVars, N, Part
  <2>2. nr_tiles' = Len(image')
    BY <1>1, <1>2, <1>8
  <2>3. Single' => pc' = "idle"
    BY <1>4, <1>5, <1>9
  <2> QED
    BY <1>1, <1>2, <2>1, <2>2, <2>3 DEF ImageInv, InCall
<1>16. DataInv'
  <2> SUFFICES ASSUME InCall' PROVE DataInv'
    BY DEF DataInv
  <2>1. ~ stops /\ ~ exhausted /\ ~ Single
    BY <1>4, <1>9 DEF InCall
  <2>2. pc' = IF state' = "EOC" THEN "found" ELSE "header"
    BY <1>4, <2>1
  <2>3. \A t \in Tiles : ~ InArea(t) => data'[t] = <<>>
    BY <1>8, <1>11 DEF DataInv
  <2>4. ASSUME NEW t \in Tiles, InArea(t)
        PROVE  /\ InOrder(t)'
               /\ Done(t)' => data'[t] = <<>> /\ Finished(t)'
               /\ ~ Done(t)' => Counted(t)'
    <3>1. CASE t = tile
      <4>1. data'[t] = <<>>
        BY <1>11, <2>1, <3>1
      <4> QED
        BY <1>2, <1>11, <3>1, <4>1 DEF InOrder
    <3>2. CASE t # tile
      <4>1. data'[t] = data[t] /\ (Done(t)' <=> Done(t)) /\ part_no' = part_no
        BY <1>1, <1>2, <1>11, <3>2
      <4>2. InOrder(t) /\ IF Done(t) THEN data[t] = <<>> /\ Finished(t) ELSE Counted(t)
        BY <1>8, <2>4 DEF DataInv
      <4> QED
        BY <1>5, <1>11, <4>1, <4>2 DEF InOrder, Counted
    <3> QED
      BY <3>1, <3>2
  <2>5. ASSUME NEW t \in Tiles, InArea(t), Finished(t)', nb_parts'[t] # 0, ~ Done(t)',
               state' = "TPHSOT"
        PROVE  FALSE
    <3>1. t # tile /\ ~ Done(t) /\ Finished(t) /\ nb_parts[t] # 0 /\ state = "TPHSOT"
      BY <1>1, <1>2, <1>11, <2>5
    <3> QED
      BY <1>8, <2>5, <3>1 DEF DataInv
  <2>6. ASSUME state' = "EOC", NEW v \in Tiles, v < tile' PROVE data'[v] = <<>>
    <3>1. CASE tile' = 0
      <4>1. v \in Nat /\ v < 0
        BY <2>6, <3>1 DEF Tiles
      <4> QED
        BY <4>1
    <3>2. CASE tile' = tile /\ state = "EOC"
      BY <1>8, <1>11, <2>6, <3>2 DEF DataInv
    <3> QED
      BY <1>2, <2>6, <3>1, <3>2
  <2>7. pc' # "decode" /\ ~ can_decode'
    BY <1>2, <2>2
  <2> QED
    BY <1>2, <1>5, <2>3, <2>4, <2>5, <2>6, <2>7 DEF DataInv
<1>17. IdleInv'
  <2> SUFFICES ASSUME pc' = "idle" PROVE IdleInv'
    BY DEF IdleInv
  <2>1. stops \/ exhausted
    BY <1>4
  <2>2. \A t \in Tiles : InArea(t) => Done(t)'
    <3> SUFFICES ASSUME NEW t \in Tiles, InArea(t) PROVE Done(t)'
      OBVIOUS
    <3>1. CASE stops
      <4>1. PICK img \in Seq([tile : Tiles, data : Seq(1..N)]) : img = image'
        BY <1>5 DEF IInv, Types
      <4>2. Len(img) = stream.tiles /\ DOMAIN img = 1..stream.tiles
        BY <1>1, <1>2, <1>8, <3>1, <4>1, LenProperties DEF stops
      <4>3. \A k \in 1..stream.tiles : img[k].tile \in 0..(stream.tiles - 1)
        <5>1. PICK T : T = [tile : Tiles, data : Seq(1..N)]
          OBVIOUS
        <5>2. img \in Seq(T)
          BY <4>1, <5>1
        <5>3. \A k \in 1..stream.tiles : img[k] \in T
          BY <4>2, <5>2, ElementOfSeq
        <5> QED
          BY <5>1, <5>3 DEF Tiles
      <4>4. \E k \in 1..stream.tiles : img[k].tile = t
        <5>1. PICK n \in Nat \ {0} : n = stream.tiles
          BY <1>6
        <5>2. t \in 0..(n - 1) /\ \A k \in 1..n : img[k].tile \in 0..(n - 1)
          BY <4>3, <5>1 DEF Tiles
        <5>3. \A j, k \in 1..n : img[j].tile = img[k].tile => j = k
          BY <1>2, <4>1, <4>2, <5>1
        <5>4. \E k \in 1..n : img[k].tile = t
          BY <5>2, <5>3, AllTiles, Zenon
        <5> QED
          BY <5>1, <5>4
      <4> QED
        BY <4>1, <4>2, <4>4 DEF Done
    <3>2. CASE exhausted
      <4>1. \A j \in 1..N : Part(j).tile = t => ~ (j >= at)
        BY <1>10, <3>2
      <4>2. Finished(t)
        BY <1>8, <4>1, MetTile
      <4>3. NumOf(t) \in Nat \ {0} /\ PartsOf(t)[NumOf(t)] \in 1..N
            /\ Part(PartsOf(t)[NumOf(t)]).tile = t
            /\ Part(PartsOf(t)[NumOf(t)]).part = NumOf(t) - 1
        BY <1>6, OrderFacts
      <4>4. PICK i \in 1..N : i = PartsOf(t)[NumOf(t)]
        BY <4>3
      <4>5. Part(i).part = part_no[t] /\ Part(i).tile = t
        <5>1. PICK m \in Nat \cup {-1} : m = part_no[t]
          BY <1>6, TypesOf
        <5> QED
          BY <4>2, <4>3, <4>4, <5>1 DEF Finished
      <4>6. Part(i).num # 0
        BY <1>6, <1>10, <3>2, <4>4, SoundFacts DEF LastKnown, Last, NumOf
      <4>7. nb_parts[t] # 0
        BY <1>6, <4>5, <4>6 DEF NumbersInv
      <4>8. Done(t) \/ t = tile
        BY <1>8, <1>10, <3>2, <4>2, <4>7 DEF DataInv
      <4> QED
        BY <1>2, <4>8
    <3> QED
      BY <2>1, <3>1, <3>2
  <2>3. ~ Single => \A t \in Tiles : data'[t] = <<>>
    <3> SUFFICES ASSUME ~ Single, NEW t \in Tiles PROVE data'[t] = <<>>
      OBVIOUS
    <3>1. CASE t = tile
      BY <1>11, <3>1
    <3>2. CASE t # tile
      BY <1>2, <1>8, <1>11, <2>2, <3>2 DEF DataInv
    <3> QED
      BY <3>1, <3>2
  <2>4. ASSUME Single
        PROVE  /\ state' = "EOC" /\ used' = "decoded"
               /\ area'.inside => data'[0] # <<>>
               /\ data'[0] # <<>> => InOrder(0)' /\ Whole(0)' /\ Finished(0)'
    <3>1. state' = "EOC" /\ used' = "decoded" /\ tile = 0 /\ 0 \in Tiles /\ area' = area
      BY <1>1, <1>2, <2>4
    <3>2. data'[0] = data[0] \/ data'[0] = <<>>
      BY <1>11, <3>1
    <3>3. area.inside => data' = data
      BY <1>1, <2>4
    <3> QED
      BY <1>1, <1>2, <1>5, <1>11, <3>1, <3>2, <3>3 DEF InOrder, Whole
  <2> QED
    BY <1>1, <1>2, <1>5, <2>2, <2>3, <2>4 DEF IdleInv
<1> QED
  BY <1>4, <1>12, <1>13, <1>14, <1>15, <1>16, <1>17

\* The steps after the loop, which never fail unless a tile is corrupt.
LEMMA TileArea ==
  ASSUME IInv, IInv', NumbersInv, Sound, wanted = -1,
         SyncInv, PlanInv, PlaceInv, DataInv, ImageInv, TileNext
  PROVE  /\ Usable' =>
              SyncInv' /\ PlanInv' /\ PlaceInv' /\ DataInv' /\ ImageInv' /\ IdleInv'
         /\ pc' # "failed"
<1>1. /\ stream.tiles \in Nat /\ tile \in Tiles /\ area \in Areas
      /\ op # "tile"
  BY StreamFacts, TypesOf DEF IInv, ModeInv
<1>2. CASE DecodeFails
  <2>1. pc = "decode" /\ Apart(tile)
    BY <1>2 DEF DecodeFails
  <2>2. InArea(tile)
    BY <1>1, <2>1 DEF DataInv, InCall
  <2>3. area.from \in Int /\ area.to \in Int /\ tile \in Int
    BY <1>1 DEF Areas, Tiles
  <2> QED
    BY <2>1, <2>2, <2>3 DEF Apart, InArea
<1>3. CASE MarkerFails
  BY <1>3 DEF MarkerFails, NoMarker, PlaceInv
<1>4. CASE DecodeBroken
  BY <1>4 DEF DecodeBroken, Usable
<1>5. CASE WantedTile \/ OtherTile
  BY <1>1, <1>5 DEF WantedTile, OtherTile
<1> QED
  BY <1>2, <1>3, <1>4, <1>5, FindArea, NoTileArea, FastArea, NextTileArea DEF TileNext

\* A call that goes on was on its way.
LEMMA StillUsable ==
  ASSUME Next, Usable' \/ (pc # "failed" /\ pc' = "failed") \/ (pc # "refused" /\ pc' = "refused")
  PROVE  Usable
<1>1. CASE Over
  BY <1>1 DEF Over, vars, Usable
<1>2. CASE ~ Over
  <2>1. pc \in {"idle", "header", "sod", "found", "decode"}
    BY <1>2 DEF Next, CallNext, SetArea, SetAreaFails, DecodeFast, DecodeKept, DecodeArea,
         MaySetArea, MayDecode, GetTile, MayGetTile,
         PartNext, HeaderEnds, SotFails, SkipNothing, SkipPart, SkipFails, SodFails,
         TakeAndJump, TakeAndGoOn, TakeLast, TakeAndCorrect, TakeUnwanted, Takes, AtSot, TileNext,
         FindTile, NoTile, DecodeFails, DecodeBroken, MarkerFails, FastTile, AreaTile,
         WantedTile, OtherTile, DecodesTile
  <2> QED
    BY <2>1 DEF Usable
<1> QED
  BY <1>1, <1>2

\* The steps of opj_decode and of what comes before it.
LEMMA AreaStep ==
  ASSUME IInv, IInv', IndexRight, NumbersInv, NumbersInv', FreshInv, FreshInv', Sound,
         wanted = -1, wanted' = -1, ~ Fresh', Usable, Area, CallNext \/ PartNext \/ TileNext
  PROVE  /\ Usable' =>
              SyncInv' /\ PlanInv' /\ PlaceInv' /\ DataInv' /\ ImageInv' /\ IdleInv'
         /\ pc' = "failed" => SotFails
<1>1. SyncInv /\ PlanInv /\ PlaceInv /\ DataInv /\ ImageInv /\ IdleInv
  BY DEF Area, Decoding
<1>2. CASE SetArea
  <2>1. pc' # "failed"
    BY <1>2 DEF SetArea, MaySetArea
  <2> QED
    BY <1>1, <1>2, <2>1, SetAreaArea
<1>3. CASE SetAreaFails
  BY <1>3 DEF SetAreaFails, Usable
<1>4. CASE DecodeFast \/ DecodeKept \/ DecodeArea
  BY <1>1, <1>4, DecodeAreaBegins
<1>5. CASE \E t \in Tiles : GetTile(t)
  <2>1. PICK t \in Tiles : wanted' = t
    BY <1>5 DEF GetTile
  <2> QED
    BY <2>1 DEF Tiles
<1>6. CASE PartNext
  <2>1. SotFails => ~ Usable'
    BY DEF SotFails, Fail, Usable
  <2> QED
    BY <1>1, <1>6, <2>1, PartArea
<1>7. CASE TileNext
  BY <1>1, <1>7, TileArea
<1> QED
  BY <1>2, <1>3, <1>4, <1>5, <1>6, <1>7 DEF CallNext

\* Every step keeps what opj_decode relies on.
LEMMA AreaNext ==
  ASSUME IInv, IndexRight, NumbersInv, FreshInv, Area, ~ Fresh', [Next]_vars
  PROVE  Area'
<1> SUFFICES ASSUME wanted' = -1, Sound', Usable'
             PROVE  SyncInv' /\ PlanInv' /\ PlaceInv' /\ DataInv' /\ ImageInv' /\ IdleInv'
  BY DEF Area, Decoding
<1>1. IInv' /\ NumbersInv' /\ FreshInv'
  BY InvNext, NumbersNext, FreshNext
<1>2. CASE UNCHANGED vars
  <2>1. UNCHANGED <<stream, mode, exact, state, at, tile, can_decode, last_part, corr, plan,
                    planned, data, part_no, nb_parts, wanted, area, pc, op, nr_tiles, image,
                    used>>
    BY <1>2 DEF vars, fileVars, planVars, tileVars, indexVars, apiVars
  <2>2. /\ N' = N /\ Tiles' = Tiles /\ Single' = Single /\ OffByOne' = OffByOne
        /\ Conformant' = Conformant /\ Spot6' = Spot6 /\ LastKnown' = LastKnown
        /\ (\A k : Part(k)' = Part(k))
        /\ (\A t : NumOf(t)' = NumOf(t) /\ PartsOf(t)' = PartsOf(t))
    BY FileKept, SameStream, SameOrder
  <2>3. Sound
    BY <2>1, <2>2 DEF Sound, Psot0InArea, InArea
  <2>4. wanted = -1 /\ Usable
    BY <2>1 DEF Usable
  <2>5. SyncInv /\ PlanInv /\ PlaceInv /\ DataInv /\ ImageInv /\ IdleInv
    BY <2>3, <2>4 DEF Area, Decoding
  <2>6. SyncInv'
    BY <2>1, <2>2, <2>5 DEF SyncInv, Synced, CorrectedLater, InArea
  <2>7. PlanInv'
    BY <2>1, <2>2, <2>5 DEF PlanInv, InArea
  <2>8. PlaceInv'
    BY <2>1, <2>2, <2>5 DEF PlaceInv
  <2>9. DataInv'
    BY <2>1, <2>2, <2>5 DEF DataInv, InCall, InArea, InOrder, Done, Finished, Counted
  <2>10. ImageInv'
    BY <2>1, <2>2, <2>5 DEF ImageInv, InCall, InArea, Complete, IsFast
  <2>11. IdleInv'
    BY <2>1, <2>2, <2>5 DEF IdleInv, InArea, Done, Fresh, InOrder, Whole, Finished
  <2> QED
    BY <2>6, <2>7, <2>8, <2>9, <2>10, <2>11
<1>3. CASE Next /\ ~ UNCHANGED vars
  <2>1. wanted = -1 /\ Sound
    BY <1>1, <1>3, SoundBefore
  <2>2. Usable
    BY <1>3, StillUsable
  <2>3. CallNext \/ PartNext \/ TileNext
    BY <1>3 DEF Next, Over
  <2> QED
    BY <1>1, <2>1, <2>2, <2>3, AreaStep
<1> QED
  BY <1>2, <1>3

-----------------------------------------------------------------------------
(***************************************************************************)
(* What opj_decode gives, and what is left behind                          *)
(***************************************************************************)

\* What opj_decode relies on holds whenever it does.
LEMMA AreaHolds == Spec => [](IndexRight /\ NumbersInv /\ FreshInv /\ Access /\ Area)
<1>1. IInv /\ NumbersInv /\ [Next]_vars => NumbersInv'
  BY NumbersNext
<1>2. IInv /\ IndexRight /\ [Next]_vars => IndexRight'
  BY IndexRightNext
<1>3. IInv /\ IndexRight /\ NumbersInv /\ Access /\ [Next]_vars => Access'
  BY AccessNext
<1>4. IInv /\ FreshInv /\ [Next]_vars => FreshInv'
  BY FreshNext
<1>5. IInv /\ FreshInv /\ Fresh => Area
  BY FreshArea DEF Area, Decoding
<1>6. IInv /\ IndexRight /\ NumbersInv /\ FreshInv /\ Area /\ ~ Fresh' /\ [Next]_vars => Area'
  BY AreaNext
<1>7. Init => Fresh
  BY DEF Init, Fresh
<1>8. Spec => [](IInv /\ IndexRight /\ NumbersInv /\ FreshInv /\ Access)
  BY Invariant, InitNumbers, InitIndexRight, InitAccess, InitFresh,
     <1>1, <1>2, <1>3, <1>4, PTL DEF Spec
<1> QED
  BY <1>5, <1>6, <1>7, <1>8, PTL DEF Spec

\* Whatever area is decoded, of whatever codestream that conforms or that the decoder
\* repairs, first or after others: opj_decode gives each tile of the area once, with
\* all of its tile-parts in their order, and no other tile, however the tile-parts of
\* the tiles are interleaved and whether or not TLM markers lead past some of them
\* (opj_j2k_decode_tiles, opj_j2k_read_tile_header, opj_j2k_read_sot).
THEOREM AreaCorrect == Spec => []AreaExact
<1>1. IInv /\ Area => AreaExact
  <2> SUFFICES ASSUME IInv, Area, pc = "idle", used = "decoded", Sound
               PROVE  /\ \A k \in DOMAIN image : Complete(k)
                      /\ \A t \in Tiles : InArea(t) =>
                           Cardinality({k \in DOMAIN image : image[k].tile = t}) = 1
                      /\ Len(image) = area.to - area.from
    BY DEF AreaExact
  <2>1. wanted = -1
    BY DEF IInv, ModeInv
  <2>2. ImageInv /\ IdleInv
    BY <2>1 DEF Area, Decoding, Usable
  <2>3. area \in Areas /\ stream.tiles \in Nat /\ image \in Seq([tile : Tiles, data : Seq(1..N)])
    BY TypesOf, StreamFacts DEF IInv
  <2>4. PICK a \in Nat, b \in Nat : a = area.from /\ b = area.to /\ a < b /\ b <= stream.tiles
    BY <2>3 DEF Areas, Tiles
  <2>5. PICK n \in Nat : n = Len(image) /\ DOMAIN image = 1..n
    BY <2>3
  <2>6. \A t \in a..(b - 1) : t \in Tiles /\ InArea(t)
    BY <2>3, <2>4 DEF Tiles, InArea
  <2>7. \A t \in Tiles : InArea(t) => t \in a..(b - 1)
    BY <2>3, <2>4 DEF Tiles, InArea
  <2>8. \A k \in 1..n : Complete(k) /\ InArea(image[k].tile) /\ image[k].tile \in Tiles
    <3>1. \A k \in 1..n : image[k].tile \in Tiles
      <4>1. PICK T : T = [tile : Tiles, data : Seq(1..N)]
        OBVIOUS
      <4>2. \A k \in 1..n : image[k] \in T
        BY <2>3, <2>5, <4>1, ElementOfSeq
      <4> QED
        BY <4>1, <4>2
    <3> QED
      BY <2>2, <2>5, <3>1 DEF ImageInv
  <2>9. \A j, k \in 1..n : image[j].tile = image[k].tile => j = k
    BY <2>2, <2>5 DEF ImageInv
  <2>10. \A t \in a..(b - 1) : \E k \in 1..n : image[k].tile = t
    BY <2>2, <2>5, <2>6 DEF IdleInv, Done
  <2>11. \A k \in 1..n : image[k].tile \in a..(b - 1)
    BY <2>7, <2>8
  <2>12. /\ n = b - a
         /\ \A t \in a..(b - 1) : Cardinality({k \in 1..n : image[k].tile = t}) = 1
    <3>1. PICK img : img = image
      OBVIOUS
    <3>2. /\ \A j, k \in 1..n : img[j].tile = img[k].tile => j = k
          /\ \A k \in 1..n : img[k].tile \in a..(b - 1)
          /\ \A t \in a..(b - 1) : \E k \in 1..n : img[k].tile = t
      BY <2>9, <2>10, <2>11, <3>1
    <3>3. a < b
      BY <2>4
    <3>4. PICK T : T = a..(b - 1)
      OBVIOUS
    <3>5. PICK f : f = [k \in 1..n |-> img[k].tile]
      OBVIOUS
    <3>6. f \in Bijection(1..n, T)
      BY <3>2, <3>4, <3>5 DEF Bijection, Injection, Surjection, IsInjective
    <3>7. n = b - a
      <4>1. IsFiniteSet(1..n) /\ Cardinality(1..n) = n
        <5>1. IsFiniteSet(1..n) /\ Cardinality(1..n) = IF 1 > n THEN 0 ELSE n - 1 + 1
          BY FS_Interval
        <5> QED
          BY <2>5, <5>1
      <4>2. IsFiniteSet(T) /\ Cardinality(T) = b - a
        <5>1. PICK c \in Int : c = b - 1 /\ a <= c /\ c - a + 1 = b - a
          BY <2>4, <3>3
        <5>2. IsFiniteSet(a..c) /\ Cardinality(a..c) = IF a > c THEN 0 ELSE c - a + 1
          <6>1. a \in Int /\ c \in Int
            BY <2>4, <5>1
          <6> QED
            BY <6>1, FS_Interval
        <5>3. ~ (a > c)
          BY <2>4, <5>1
        <5> QED
          BY <3>4, <5>1, <5>2, <5>3
      <4>3. ExistsBijection(1..n, T)
        BY <3>6 DEF ExistsBijection
      <4>4. Cardinality(T) = Cardinality(1..n)
        BY <4>1, <4>3, FS_Bijection
      <4> QED
        BY <4>1, <4>2, <4>4
    <3>8. ASSUME NEW t \in a..(b - 1)
          PROVE  Cardinality({k \in 1..n : img[k].tile = t}) = 1
      <4>1. PICK j \in 1..n : img[j].tile = t
        BY <3>2
      <4>2. {k \in 1..n : img[k].tile = t} = {j}
        BY <3>2, <4>1
      <4> QED
        BY <4>2, FS_Singleton
    <3> QED
      BY <3>1, <3>7, <3>8
  <2> QED
    BY <2>4, <2>5, <2>7, <2>8, <2>12
<1> QED
  BY Invariant, AreaHolds, <1>1, PTL

\* No step ends in a failure of the decoder's own.
LEMMA CallsNext ==
  ASSUME IInv, IndexRight, NumbersInv, FreshInv, Access, Area, CallsSucceed, [Next]_vars
  PROVE  CallsSucceed'
<1> USE DEF fileVars, planVars, tileVars, indexVars, apiVars
<1>1. IInv' /\ NumbersInv' /\ FreshInv'
  BY InvNext, NumbersNext, FreshNext
<1>2. UNCHANGED fileVars
  BY FileKept
<1>3. /\ N' = N /\ OffByOne' = OffByOne /\ RandomAccess' = RandomAccess
      /\ Conformant' = Conformant /\ Spot6' = Spot6 /\ LastKnown' = LastKnown
      /\ (\A k : Part(k)' = Part(k))
  BY <1>2, SameStream, SameOrder
<1>4. CASE UNCHANGED vars
  <2>1. UNCHANGED <<pc, used, planned, area>>
    BY <1>4 DEF vars
  <2>2. CorrectedInTime' = CorrectedInTime /\ Sound' = Sound
    BY <1>3, <2>1 DEF CorrectedInTime, Sound, Psot0InArea, InArea
  <2> QED
    BY <1>3, <2>1, <2>2 DEF CallsSucceed
<1>5. ASSUME Next, ~ UNCHANGED vars, pc' = "failed", CorrectedInTime',
             IF used' = "tiles" THEN RandomAccess' ELSE Sound'
      PROVE  FALSE
  <2>1. CallNext \/ PartNext \/ TileNext
    BY <1>5 DEF Next, Over
  <2>2. pc # "failed" /\ used' \in {"decoded", "tiles"}
    <3>1. CASE CallNext
      BY <1>5, <3>1 DEF CallNext, SetArea, SetAreaFails, DecodeFast, DecodeKept, DecodeArea,
           BeginDecode, MaySetArea, MayDecode, GetTile, MayGetTile
    <3>2. CASE PartNext \/ TileNext
      <4>1. used' = used /\ InCall
        BY <3>2 DEF InCall, PartNext, HeaderEnds, SotFails, SkipNothing, SkipPart, SkipFails,
             SodFails, TakeAndJump, TakeAndGoOn, TakeLast, TakeAndCorrect, TakeUnwanted, Takes,
             AtSot, Fail, TileNext, FindTile, NoTile, DecodeFails, DecodeBroken, MarkerFails,
             FastTile, AreaTile, WantedTile, OtherTile, DecodesTile
      <4> QED
        BY <4>1 DEF InCall, IInv, ModeInv
    <3> QED
      BY <2>1, <3>1, <3>2
  <2>3. CASE used' = "tiles"
    BY <1>3, <1>5, <2>2, <2>3, AskingSucceeds
  <2>4. CASE used' = "decoded"
    <3>1. wanted' = -1 /\ ~ Fresh'
      BY <1>1, <2>4 DEF IInv, ModeInv, Fresh
    <3>2. wanted = -1 /\ Sound
      BY <1>1, <1>5, <2>4, <3>1, SoundBefore
    <3>3. Usable
      BY <1>5, <2>2, StillUsable
    <3>4. SotFails
      BY <1>1, <1>5, <2>1, <3>1, <3>2, <3>3, AreaStep
    <3>5. AtSot /\ SotRefused(Part(Here)) /\ area' = area
      BY <3>4 DEF SotFails, Fail
    <3>6. PICK i \in 1..N : i = Here
      BY <3>5, HereInside DEF IInv
    <3>7. CorrectedInTime
      BY <1>3, <1>5, <3>5 DEF CorrectedInTime, InArea
    <3>8. SyncInv /\ PlanInv /\ PlaceInv
      BY <3>2, <3>3 DEF Area, Decoding
    <3>9. ~ SotRefused(Part(i))
      BY <3>2, <3>5, <3>6, <3>7, <3>8, SotSucceeds
    <3> QED
      BY <3>5, <3>6, <3>9
  <2> QED
    BY <2>2, <2>3, <2>4
<1>6. ASSUME Next, ~ UNCHANGED vars, pc' = "refused", area'.inside, Sound'
      PROVE  FALSE
  <2>1. SetAreaFails
    <3>1. pc' # "refused" \/ SetAreaFails \/ Over
      BY <1>6 DEF Next, CallNext, SetArea, MaySetArea, DecodeFast, DecodeKept, DecodeArea, EnterHeader,
           GetTile, PartNext, HeaderEnds, SotFails, SkipNothing, SkipPart, SkipFails,
           SodFails, TakeAndJump, TakeAndGoOn, TakeLast, TakeAndCorrect, TakeUnwanted, Fail,
           NextMarker, TileNext, FindTile, NoTile, Return, DecodeFails, DecodeBroken, MarkerFails,
           FastTile, AreaTile, WantedTile, OtherTile
    <3> QED
      BY <1>6, <3>1 DEF Over
  <2>2. /\ pc = "idle" /\ (used = "new" \/ (Single /\ used = "decoded")) /\ ~ AreaAllowed
        /\ UNCHANGED <<area, planned>>
    BY <2>1 DEF SetAreaFails, MaySetArea
  <2>3. wanted = -1 /\ Sound
    <3>1. Sound
      BY <1>3, <1>6, <2>2 DEF Sound, Psot0InArea, InArea
    <3> QED
      BY <2>2, <3>1 DEF IInv, ModeInv
  <2>4. CASE used = "new"
    BY <2>2, <2>4 DEF FreshInv, Fresh, AreaAllowed
  <2>5. CASE Single /\ used = "decoded"
    <3>1. IdleInv
      BY <2>2, <2>3 DEF Area, Decoding, Usable
    <3> QED
      BY <1>6, <2>2, <2>5, <3>1 DEF IdleInv, Fresh, AreaAllowed
  <2> QED
    BY <2>2, <2>4, <2>5
<1> QED
  BY <1>4, <1>5, <1>6 DEF CallsSucceed

\* No call fails because of where the calls before it have left the decoder, of any
\* codestream that conforms or that the decoder repairs: every SOT is accepted, every
\* tile and the end are found, and another area of the only tile can be set
\* (opj_j2k_read_tile_header, opj_j2k_decode, opj_j2k_get_tile,
\* opj_j2k_set_decode_area).
THEOREM CallsCorrect == Spec => []CallsSucceed
<1>1. Init => CallsSucceed
  BY DEF Init, CallsSucceed
<1>2. IInv /\ (IndexRight /\ NumbersInv /\ FreshInv /\ Access /\ Area) /\ CallsSucceed
        /\ [Next]_vars => CallsSucceed'
  BY CallsNext
<1> QED
  BY Invariant, AreaHolds, <1>1, <1>2, PTL DEF Spec

\* Between two calls nothing of a codestream of several tiles is in memory, whichever
\* calls there have been, and the index is right: no call takes data of an earlier one
\* for its own, nor seeks to another tile-part (opj_j2k_decode_tiles,
\* opj_j2k_get_tile, opj_j2k_read_sot).
THEOREM LeftBehindCorrect == Spec => []LeftBehind
<1>1. IInv /\ Area => NothingKept
  <2> SUFFICES ASSUME IInv, Area, pc = "idle", ~ Single,
                      IF used = "tiles" THEN RandomAccess ELSE Sound,
                      NEW t \in Tiles
               PROVE  data[t] = <<>>
    BY DEF NothingKept
  <2>1. used \in {"new", "area", "decoded", "tiles"} /\ stream \in Streams
    BY TypesOf DEF IInv
  <2>2. CASE used = "tiles"
    <3>1. wanted # -1
      BY <2>2 DEF IInv, ModeInv
    <3>2. NoPsot0
      BY <2>1, <2>2, AccessFacts
    <3> QED
      BY <3>1, <3>2 DEF IInv, Book, Usable, Collected
  <2>3. CASE used = "decoded"
    <3>1. wanted = -1
      BY <2>3 DEF IInv, ModeInv
    <3>2. IdleInv
      BY <2>3, <3>1 DEF Area, Decoding, Usable
    <3> QED
      BY <2>3, <3>2 DEF IdleInv
  <2>4. CASE used \in {"new", "area"}
    BY <2>4 DEF IInv, ModeInv, Fresh
  <2> QED
    BY <2>1, <2>2, <2>3, <2>4
<1>2. NothingKept /\ IndexSound => LeftBehind
  BY DEF LeftBehind
<1> QED
  BY Invariant, AreaHolds, IndexCorrect, <1>1, <1>2, PTL
=============================================================================
