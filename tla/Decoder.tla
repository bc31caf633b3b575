------------------------------- MODULE Decoder -------------------------------
(***************************************************************************)
(* The codestream decoder of j2k.c between opj_read_header and             *)
(* opj_end_decompress: how tile-parts are found, skipped, collected and    *)
(* handed to the tile decoder, under opj_set_decode_area with opj_decode,  *)
(* and under opj_get_decoded_tile.                                         *)
(*                                                                         *)
(* A codestream is a sequence of tile-parts, of a row of tiles.  A position*)
(* in it is the number of the tile-part whose SOT marker has been read, or *)
(* will be read next; after the last one nothing is left but an EOC.  The  *)
(* data of a tile is the sequence of the tile-parts it was collected from. *)
(* The stream can seek.  A tile-part holds no other marker than SOT and    *)
(* SOD.                                                                    *)
(***************************************************************************)
EXTENDS Integers, Sequences, SequencesExt, FiniteSets, FiniteSetsExt

CONSTANTS
  Streams,   \* the codestreams a decoder may be given, see StreamOK
  Modes,     \* of opj_decoder_set_strict_mode: "default", "strict", "lenient"
  Faults,    \* "tile" if a tile may fail to decode
  MaxCalls   \* bound on the calls of opj_decode and opj_get_decoded_tile

\* tiles: their number.  Each part: its tile, TPsot, TNsot (0: not given), and
\* whether Psot is 0, as it may be for the last.  eoc: there is an EOC marker.
\* cut: the data of the last part is cut short.  tlm: the tile of each part
\* according to the TLM markers, or <<>>.
StreamOK(s) ==
  LET n == Len(s.parts) IN
  /\ s.tiles \in Nat \ {0}
  /\ s.parts \in Seq([tile : 0..(s.tiles - 1), part : Nat, num : Nat, psot0 : BOOLEAN])
  /\ n > 0 /\ s.eoc \in BOOLEAN /\ s.cut \in BOOLEAN
  /\ \A i \in 1..n : s.parts[i].psot0 => i = n /\ s.eoc /\ s.tlm = <<>>
  /\ s.cut => ~s.eoc /\ ~s.parts[n].psot0
  /\ s.tlm # <<>> => s.tlm \in [1..n -> 0..(s.tiles - 1)]

ASSUME DecoderAssumption ==
  /\ \A s \in Streams : StreamOK(s)
  /\ Modes \subseteq {"default", "strict", "lenient"}
  /\ MaxCalls \in Nat

VARIABLES
  stream, mode, exact,   \* the codestream; the mode; the image is its only tile
  state,                 \* m_state
  at,                    \* the position in the codestream
  tile,                  \* m_current_tile_number
  can_decode, last_part, \* m_can_decode, m_last_tile_part
  corr, checked,         \* m_nb_tile_parts_correction and ..._checked
  wanted,                \* m_tile_ind_to_dec
  area,                  \* m_start_tile_x.. m_end_tile_x, and the output image
  plan, planned,         \* m_intersecting_tile_parts_offset: what is left of it
  data,                  \* per tile: m_data
  part_no, nb_parts,     \* per tile: m_current_tile_part_number, m_nb_tile_parts
  nb_tps, start,         \* per tile: nb_tps and the start_pos of its tp_index
  last_sot, tlm_ok,      \* m_last_sot_read_pos, ~m_is_invalid
  pc, op, nr_tiles,      \* the call, where it is
  image,                 \* the tiles put into the output image, with their data
  used, calls            \* how the application uses the codec, and how often

fileVars == <<stream, mode, exact>>
tileVars == <<data, part_no, nb_parts>>
indexVars == <<nb_tps, start, last_sot, tlm_ok>>
planVars == <<plan, planned>>
apiVars == <<wanted, area, op, used, calls>>
vars == <<fileVars, state, at, tile, can_decode, last_part, corr, checked,
          planVars, tileVars, indexVars, apiVars, pc, nr_tiles, image>>

Tiles == 0..(stream.tiles - 1)
Part(i) == stream.parts[i]
N == Len(stream.parts)
PartNumbers(s) == 0..Len(s.parts)

\* What of a tp_index that has not been stored; it reads as the start of file.
Unset == 0
NoIndex == <<>>

\* opj_j2k_build_tp_index_from_tlm: valid only if every tile has a part.
TlmValid(s) == s.tlm # <<>> /\ \A t \in 0..(s.tiles - 1) : \E i \in DOMAIN s.tlm : s.tlm[i] = t

\* The members of a finite set of numbers, from the smallest to the largest.
Ascending(S) ==
  [k \in 1..Cardinality(S) |-> CHOOSE x \in S : Cardinality({y \in S : y < x}) = k - 1]

\* The tile-parts of tile t, as the TLM markers list them.
TlmParts(s, t) == Ascending({i \in DOMAIN s.tlm : s.tlm[i] = t})

TlmStart_End(s, t) == [p \in PartNumbers(s) |->
  IF p < Len(TlmParts(s, t)) THEN TlmParts(s, t)[p + 1] + 1 ELSE Unset]
TlmStart(s, t) == [p \in PartNumbers(s) |->
  IF p < Len(TlmParts(s, t)) THEN TlmParts(s, t)[p + 1] ELSE Unset]

\* After opj_read_header.
Init ==
  /\ stream \in Streams /\ mode \in Modes
  /\ exact \in IF stream.tiles = 1 THEN BOOLEAN ELSE {FALSE}
  /\ state = "TPHSOT" /\ at = 1 /\ tile = 0 /\ can_decode = FALSE /\ last_part = FALSE
  /\ corr = 0 /\ checked = (mode = "strict") /\ wanted = -1
  /\ area = [from |-> 0, to |-> stream.tiles, inside |-> FALSE]
  /\ plan = <<>> /\ planned = FALSE
  /\ data = [t \in Tiles |-> <<>>]
  /\ part_no = [t \in Tiles |-> -1] /\ nb_parts = [t \in Tiles |-> 0]
  /\ tlm_ok = TlmValid(stream) /\ last_sot = 0
  /\ nb_tps = [t \in Tiles |-> IF tlm_ok THEN Len(TlmParts(stream, t)) ELSE 0]
  /\ start = [t \in Tiles |-> IF tlm_ok THEN TlmStart(stream, t) ELSE NoIndex]
  /\ pc = "idle" /\ op = "none" /\ nr_tiles = 0 /\ image = <<>>
  /\ used = "new" /\ calls = 0

Single == stream.tiles = 1
InArea(t) == area.from <= t /\ t < area.to

\* The call fails, and the codec is of no use any more, whatever it has stored.
Fail ==
  /\ pc' = "failed"
  /\ UNCHANGED <<fileVars, state, at, tile, can_decode, last_part, corr, checked,
                 planVars, tileVars, indexVars, apiVars, nr_tiles, image>>

\* opj_j2k_read_tile_header looks at the state before anything else.
EnterHeader(s) ==
  pc' = CASE s = "EOC" -> "found" [] s = "TPHSOT" -> "header" [] OTHER -> "failed"

(***************************************************************************)
(* The calls of the application                                            *)
(***************************************************************************)
\* Its edges are borders of tiles, or inside the first and the last one.
Areas == {a \in [from : Tiles, to : Tiles \cup {stream.tiles}, inside : BOOLEAN] :
            a.from < a.to}

\* A codec decodes one area, or several of an image of one tile.
MaySetArea ==
  /\ pc = "idle" /\ calls < MaxCalls
  /\ used = "new" \/ (Single /\ used = "decoded")

AreaAllowed == (Single /\ data[0] # <<>>) \/ state = "TPHSOT"

SetArea ==
  /\ MaySetArea /\ AreaAllowed
  /\ area' \in Areas
  /\ used' = "area"
  /\ UNCHANGED <<fileVars, state, at, tile, can_decode, last_part, corr, checked, wanted,
                 planVars, tileVars, indexVars, pc, op, nr_tiles, image, calls>>

SetAreaFails ==
  /\ MaySetArea /\ ~AreaAllowed
  /\ pc' = "refused"
  /\ UNCHANGED <<fileVars, state, at, tile, can_decode, last_part, corr, checked, planVars,
                 tileVars, indexVars, apiVars, nr_tiles, image>>

MayDecode == pc = "idle" /\ calls < MaxCalls /\ used \in {"new", "area"}

BeginDecode(o) ==
  /\ op' = o /\ used' = "decoded" /\ calls' = calls + 1 /\ image' = <<>> /\ nr_tiles' = 0
  /\ UNCHANGED <<fileVars, state, at, can_decode, last_part, corr, checked, wanted, area,
                 tileVars, indexVars>>

\* The only tile, all of it, into an image of its size.
IsFast == Single /\ exact /\ ~area.inside

DecodeFast ==
  /\ MayDecode /\ IsFast
  /\ EnterHeader(state)
  /\ BeginDecode("fast")
  /\ UNCHANGED <<tile, planVars>>

\* The data of the only tile is still there.
DecodeKept ==
  /\ MayDecode /\ ~IsFast /\ Single /\ data[0] # <<>>
  /\ tile' = 0 /\ pc' = "decode"
  /\ plan' = <<>> /\ planned' = FALSE
  /\ BeginDecode("tiles")

\* With a valid TLM, the tile-parts of the area are known beforehand.
PlanOfArea ==
  LET starts(t) == {start[t][p] : p \in 0..(nb_tps[t] - 1)}
      some == ~(area.from = 0 /\ area.to = stream.tiles)
  IN  IF some /\ tlm_ok
        THEN Ascending(UNION {starts(t) : t \in {u \in Tiles : InArea(u)}})
        ELSE <<>>

DecodeArea ==
  /\ MayDecode /\ ~IsFast /\ ~(Single /\ data[0] # <<>>)
  /\ EnterHeader(state)
  /\ plan' = PlanOfArea /\ planned' = (plan' # <<>>)
  /\ BeginDecode("tiles")
  /\ UNCHANGED tile

\* opj_j2k_get_tile and the beginning of opj_j2k_decode_one_tile: a seek to the
\* tile, if there is an index.
MayGetTile == pc = "idle" /\ calls < MaxCalls /\ used \in {"new", "tiles"}

NextState == IF start[0] # NoIndex /\ state = "EOC" THEN "TPHSOT" ELSE state

SeekTile(t) ==
  CASE start[0] = NoIndex -> at
    [] start[0] # NoIndex /\ nb_tps[t] = 0 -> last_sot
    [] OTHER -> start[t][0]

ResetPartNumbers_None(t) == UNCHANGED part_no
ResetPartNumbers(t) == part_no' = [u \in Tiles |-> -1]

GetTile(t) ==
  /\ MayGetTile
  /\ wanted' = t /\ op' = "tile" /\ used' = "tiles" /\ calls' = calls + 1
  /\ area' = [from |-> t, to |-> t + 1, inside |-> FALSE]
  /\ image' = <<>>
  /\ at' = SeekTile(t) /\ state' = NextState
  /\ ResetPartNumbers(t)
  /\ IF at' = Unset THEN pc' = "failed" ELSE EnterHeader(state')
  /\ UNCHANGED <<fileVars, tile, can_decode, last_part, corr, checked, planVars,
                 data, nb_parts, indexVars, nr_tiles>>

(***************************************************************************)
(* opj_j2k_read_tile_header: the loop over the tile-parts                  *)
(***************************************************************************)
Here == IF plan # <<>> THEN Head(plan) ELSE at
Jump == plan' = (IF plan # <<>> THEN Tail(plan) ELSE plan) /\ UNCHANGED planned

\* There is no byte left.
HeaderEnds ==
  /\ pc = "header" /\ Here > N
  /\ state' = "NEOC" /\ pc' = "found"
  /\ UNCHANGED <<fileVars, at, tile, can_decode, last_part, corr, checked, planVars,
                 tileVars, indexVars, apiVars, nr_tiles, image>>

\* opj_j2k_read_sot.  The order of the parts of a tile is looked at only if all
\* of its headers are read.
OutOfOrder_Unchecked(p) == FALSE
OutOfOrder(p) ==
  (wanted = -1 \/ wanted = p.tile) /\ part_no[p.tile] + 1 # p.part

SotRefused(p) ==
  \/ OutOfOrder(p)
  \/ nb_parts[p.tile] # 0 /\ p.part >= nb_parts[p.tile]
  \/ p.num # 0 /\ p.part >= p.num + corr

AtSot == pc = "header" /\ Here <= N

SotFails == AtSot /\ SotRefused(Part(Here)) /\ Fail

Declared(p) == IF p.num # 0 THEN p.num + corr ELSE 0
NbParts(p) == IF p.num # 0 THEN Declared(p) ELSE nb_parts[p.tile]
Completes(p) == NbParts(p) = p.part + 1

\* What is not wanted is skipped.
Skips(p) == IF wanted = -1 THEN ~InArea(p.tile) ELSE p.tile # wanted

\* A TLM that has fewer parts than this SOT says is given up; without one the
\* index is made of what the SOTs say, as far as they say it.
Index(i) ==
  LET p == Part(i)
      t == p.tile
      known == IF start[t] = NoIndex THEN [q \in PartNumbers(stream) |-> Unset] ELSE start[t]
  IN  /\ tlm_ok' = (tlm_ok /\ Declared(p) <= nb_tps[t])
      /\ nb_tps' = [nb_tps EXCEPT ![t] =
                      IF tlm_ok' \/ p.num = 0 THEN @ ELSE Declared(p)]
      /\ start' = [start EXCEPT ![t] =
                     IF p.part < nb_tps'[t] THEN [known EXCEPT ![p.part] = i] ELSE known]
      /\ last_sot' = IF i > last_sot THEN i ELSE last_sot

ReadSot(i) ==
  /\ part_no' = [part_no EXCEPT ![Part(i).tile] = Part(i).part]
  /\ last_part' = (last_part \/ Part(i).psot0)
  /\ Index(i) /\ Jump

\* The next marker is read: a SOT, the EOC, or there is none.  Without EOC, a
\* tile whose only part has no TNsot may be complete.
Lone == {t \in Tiles : part_no'[t] = 0 /\ nb_parts'[t] = 0}

NextMarker(i, t, s) ==
  LET next == IF i < N THEN "SOT" ELSE IF stream.eoc THEN "EOC" ELSE "none"
      ends == next = "none" /\ t = stream.tiles - 1 /\ Lone # {}
  IN  /\ at' = i + 1
      /\ tile' = CASE next = "EOC" -> 0 [] ends -> Min(Lone) [] OTHER -> t
      /\ state' = IF next = "EOC" \/ ends THEN "EOC" ELSE s
      /\ pc' = CASE next = "SOT" -> "header"
                 [] next = "EOC" \/ ends -> "found"
                 [] OTHER -> "failed"

IsCut(i) == stream.cut /\ i = N

\* m_sot_length is 0 once a part with Psot = 0 has been met, so that nothing is
\* skipped and the SOD comes next.
SkipNothing ==
  /\ AtSot /\ ~SotRefused(Part(Here)) /\ Skips(Part(Here))
  /\ ReadSot(Here) /\ last_part'
  /\ nb_parts' = [nb_parts EXCEPT ![Part(Here).tile] = NbParts(Part(Here))]
  /\ at' = Here /\ tile' = Part(Here).tile /\ state' = "TPHSOT"
  /\ pc' = "sod"
  /\ UNCHANGED <<fileVars, can_decode, corr, checked, data, apiVars, nr_tiles, image>>

SkipPart ==
  /\ AtSot /\ ~SotRefused(Part(Here)) /\ Skips(Part(Here)) /\ ~IsCut(Here)
  /\ ReadSot(Here) /\ ~last_part'
  /\ nb_parts' = [nb_parts EXCEPT ![Part(Here).tile] = NbParts(Part(Here))]
  /\ NextMarker(Here, Part(Here).tile, "TPHSOT")
  /\ UNCHANGED <<fileVars, can_decode, corr, checked, data, apiVars, nr_tiles, image>>

SkipFails ==
  /\ AtSot /\ ~SotRefused(Part(Here)) /\ Skips(Part(Here)) /\ IsCut(Here) /\ ~last_part
  /\ Fail

\* opj_j2k_read_sod.  After a Psot of 0 it takes all there is up to the EOC.
UpToEOC(i) == [k \in 1..(N - i + 1) |-> i + k - 1]

Collect(i) ==
  data' = [data EXCEPT ![Part(i).tile] = @ \o (IF last_part' THEN UpToEOC(i) ELSE <<i>>)]

AfterSod(i) == IF last_part' THEN N ELSE i
SodState(i) == IF IsCut(i) /\ ~last_part' THEN "NEOC" ELSE "TPHSOT"

Takes(i) ==
  /\ AtSot /\ i = Here /\ ~SotRefused(Part(i)) /\ ~Skips(Part(i))
  /\ ReadSot(i)
  /\ ~(IsCut(i) /\ ~last_part' /\ mode # "lenient")
  /\ Collect(i)

SodFails ==
  /\ AtSot /\ ~SotRefused(Part(Here)) /\ ~Skips(Part(Here))
  /\ IsCut(Here) /\ ~last_part /\ mode # "lenient"
  /\ Fail

\* A TLM says where the next part of the wanted tile is.
JumpsToNext(p) ==
  /\ wanted = p.tile /\ tlm_ok'
  /\ NbParts(p) = nb_tps'[p.tile] /\ p.part + 1 < NbParts(p)

TakeAndJump(i) ==
  /\ Takes(i) /\ ~Completes(Part(i)) /\ JumpsToNext(Part(i))
  /\ nb_parts' = [nb_parts EXCEPT ![Part(i).tile] = NbParts(Part(i))]
  /\ tile' = Part(i).tile /\ state' = SodState(i)
  /\ at' = start'[Part(i).tile][Part(i).part + 1] /\ pc' = "header"
  /\ UNCHANGED <<fileVars, can_decode, corr, checked, apiVars, nr_tiles, image>>

TakeAndGoOn(i) ==
  /\ Takes(i) /\ ~Completes(Part(i)) /\ ~JumpsToNext(Part(i))
  /\ nb_parts' = [nb_parts EXCEPT ![Part(i).tile] = NbParts(Part(i))]
  /\ NextMarker(AfterSod(i), Part(i).tile, SodState(i))
  /\ UNCHANGED <<fileVars, can_decode, corr, checked, apiVars, nr_tiles, image>>

\* opj_j2k_need_nb_tile_parts_correction: with the number of parts complete, one
\* more follows, whose TPsot is its TNsot.
NeedsCorrection_Never(i) == FALSE
NeedsCorrection(i) ==
  /\ ~checked /\ NbParts(Part(i)) # 1
  /\ \E j \in (AfterSod(i) + 1)..N :
       /\ Part(j).tile = Part(i).tile /\ Part(j).part = Part(j).num
       /\ \A k \in (AfterSod(i) + 1)..(j - 1) : Part(k).tile # Part(i).tile

TakeLast(i) ==
  /\ Takes(i) /\ Completes(Part(i)) /\ ~NeedsCorrection(i)
  /\ nb_parts' = [nb_parts EXCEPT ![Part(i).tile] = NbParts(Part(i))]
  /\ checked' = TRUE /\ can_decode' = TRUE
  /\ tile' = Part(i).tile /\ state' = SodState(i)
  /\ at' = AfterSod(i) + 1 /\ pc' = "found"
  /\ UNCHANGED <<fileVars, corr, apiVars, nr_tiles, image>>

OneMore(nb) == [t \in Tiles |-> IF nb[t] = 0 THEN 0 ELSE nb[t] + 1]

TakeAndCorrect(i) ==
  /\ Takes(i) /\ Completes(Part(i)) /\ NeedsCorrection(i)
  /\ nb_parts' = OneMore([nb_parts EXCEPT ![Part(i).tile] = NbParts(Part(i))])
  /\ checked' = TRUE /\ corr' = 1
  /\ NextMarker(AfterSod(i), Part(i).tile, SodState(i))
  /\ UNCHANGED <<fileVars, can_decode, apiVars, nr_tiles, image>>

\* The SOD of a part that should have been skipped: its data is read.
TakeUnwanted ==
  /\ pc = "sod"
  /\ data' = [data EXCEPT ![tile] = @ \o UpToEOC(at)]
  /\ UNCHANGED <<part_no, nb_parts>>
  /\ NextMarker(N, tile, "TPHSOT")
  /\ UNCHANGED <<fileVars, can_decode, last_part, corr, checked, planVars, indexVars,
                 apiVars, nr_tiles, image>>

(***************************************************************************)
(* opj_j2k_read_tile_header after the loop: a tile is complete, or the end *)
(* has been met and the tiles that have data are taken one after the other *)
(***************************************************************************)
Candidates_After == {t \in Tiles : t > tile /\ data[t] # <<>>}
Candidates == {t \in Tiles : t >= tile /\ data[t] # <<>>}
TileFound == can_decode \/ Candidates # {}

FindTile ==
  /\ pc = "found" /\ TileFound
  /\ tile' = IF can_decode THEN tile ELSE Min(Candidates)
  /\ pc' = "decode"
  /\ UNCHANGED <<fileVars, state, at, can_decode, last_part, corr, checked, planVars,
                 tileVars, indexVars, apiVars, nr_tiles, image>>

\* opj_j2k_are_all_used_components_decoded ends the call.
Return(img) == pc' = IF img = <<>> THEN "failed" ELSE "idle"

\* For the fast path that is an error.
NoTile ==
  /\ pc = "found" /\ ~TileFound
  /\ IF op = "fast" THEN pc' = "failed" ELSE Return(image)
  /\ UNCHANGED <<fileVars, state, at, tile, can_decode, last_part, corr, checked,
                 planVars, tileVars, indexVars, apiVars, nr_tiles, image>>

(***************************************************************************)
(* opj_j2k_decode_tile and what its callers do with the tile               *)
(***************************************************************************)
\* opj_tcd_decode_tile refuses a tile that is apart from the area.
Apart(t) ==
  LET gap == IF area.inside THEN 0 ELSE 1
  IN  t < area.from - gap \/ t >= area.to + gap

DecodeFails ==
  /\ pc = "decode" /\ Apart(tile)
  /\ Fail

\* Its data is corrupt, or memory is short.
DecodeBroken ==
  /\ pc = "decode" /\ "tile" \in Faults
  /\ pc' = "broken"
  /\ UNCHANGED <<fileVars, state, at, tile, can_decode, last_part, corr, checked,
                 planVars, tileVars, indexVars, apiVars, nr_tiles, image>>

\* The marker after the tile: nothing is read at the end of the codestream, and
\* a missing one is an error in strict mode.
NoMarker == state = "TPHSOT" /\ at > N /\ ~stream.eoc
MeetsEOC == state = "TPHSOT" /\ at > N /\ stream.eoc

MarkerFails == pc = "decode" /\ ~Apart(tile) /\ NoMarker /\ mode # "lenient" /\ Fail

DecodesTile ==
  /\ pc = "decode" /\ ~Apart(tile) /\ ~(NoMarker /\ mode # "lenient")
  /\ can_decode' = FALSE
  /\ state' = IF MeetsEOC THEN "EOC" ELSE state
  /\ tile' = IF MeetsEOC THEN 0 ELSE tile
  /\ image' = IF InArea(tile) THEN Append(image, [tile |-> tile, data |-> data[tile]])
                              ELSE image
  /\ UNCHANGED <<fileVars, last_part, corr, checked, part_no, nb_parts, indexVars, apiVars>>

Forget_Keeps(t) == UNCHANGED data
Forget(t) == data' = [data EXCEPT ![t] = <<>>]

\* The whole of the only tile: its buffers become the image's.
FastTile ==
  /\ op = "fast" /\ DecodesTile
  /\ pc' = "idle"
  /\ UNCHANGED <<at, planVars, data, nr_tiles>>

\* The data of the only tile is kept for the next area, if this one was less.
AreaTile ==
  /\ op = "tiles" /\ DecodesTile
  /\ IF Single /\ area.inside THEN UNCHANGED data ELSE Forget(tile)
  /\ nr_tiles' = nr_tiles + 1
  /\ LET exhausted == planned /\ plan = <<>>
         stops == (state' = "NEOC" /\ at > N) \/ nr_tiles' = stream.tiles
     IN  /\ at' = IF exhausted /\ ~stops THEN N + 1 ELSE at
         /\ IF stops \/ exhausted THEN Return(image') ELSE EnterHeader(state')
  /\ UNCHANGED planVars

\* The wanted tile, after which the stream goes back to the first tile-part.
WantedTile ==
  /\ op = "tile" /\ tile = wanted /\ DecodesTile
  /\ Forget(tile)
  /\ at' = 1 /\ Return(image')
  /\ UNCHANGED <<planVars, nr_tiles>>

\* Another tile, which comes before it.
OtherTile ==
  /\ op = "tile" /\ tile # wanted /\ DecodesTile
  /\ Forget(tile)
  /\ EnterHeader(state')
  /\ UNCHANGED <<at, planVars, nr_tiles>>

\* The application stops: after an error the codec is of no use any more.
Ends == {"idle", "failed", "broken", "refused"}
Over == pc \in Ends /\ UNCHANGED vars
-----------------------------------------------------------------------------
CallNext ==
  \/ SetArea \/ SetAreaFails
  \/ DecodeFast \/ DecodeKept \/ DecodeArea
  \/ \E t \in Tiles : GetTile(t)

PartNext ==
  \/ HeaderEnds \/ SotFails \/ SkipNothing \/ SkipPart \/ SkipFails \/ SodFails
  \/ \E i \in 1..N :
       TakeAndJump(i) \/ TakeAndGoOn(i) \/ TakeLast(i) \/ TakeAndCorrect(i)
  \/ TakeUnwanted

TileNext ==
  \/ FindTile \/ NoTile \/ DecodeFails \/ DecodeBroken \/ MarkerFails
  \/ FastTile \/ AreaTile \/ WantedTile \/ OtherTile

Next == CallNext \/ PartNext \/ TileNext \/ Over

Spec == Init /\ [][Next]_vars

\* A call that has begun runs.
FairSpec == Spec /\ WF_vars(PartNext \/ TileNext)
-----------------------------------------------------------------------------
\* The variables range over what the code can store in them.
TypeOK ==
  /\ stream \in Streams /\ mode \in Modes /\ exact \in BOOLEAN
  /\ state \in {"TPHSOT", "EOC", "NEOC"} /\ at \in 0..(N + 1) /\ tile \in Tiles
  /\ can_decode \in BOOLEAN /\ last_part \in BOOLEAN
  /\ corr \in {0, 1} /\ checked \in BOOLEAN /\ wanted \in Tiles \cup {-1}
  /\ area \in Areas /\ planned \in BOOLEAN /\ plan \in Seq(1..N)
  /\ data \in [Tiles -> Seq(1..N)]
  /\ part_no \in [Tiles -> Nat \cup {-1}] /\ nb_parts \in [Tiles -> Nat]
  /\ nb_tps \in [Tiles -> Nat] /\ last_sot \in 0..N /\ tlm_ok \in BOOLEAN
  /\ \A t \in Tiles : start[t] # NoIndex => start[t] \in [PartNumbers(stream) -> 0..N]
  /\ pc \in {"idle", "header", "sod", "found", "decode", "failed", "broken", "refused"}
  /\ op \in {"none", "fast", "tiles", "tile"} /\ nr_tiles \in 0..stream.tiles
  /\ \A k \in DOMAIN image : image[k].tile \in Tiles /\ image[k].data \in Seq(1..N)
  /\ used \in {"new", "area", "decoded", "tiles"} /\ calls \in 0..MaxCalls

\* The parts of tile t, as they follow each other in the codestream.
PartsOf(t) == Ascending({i \in 1..N : Part(i).tile = t})

\* What ISO 15444-1 A.4.2 asks for: every tile there, its parts in order, TNsot
\* their number wherever it is given.
Ordered == \A t \in Tiles : Len(PartsOf(t)) > 0 /\
  \A k \in DOMAIN PartsOf(t) : Part(PartsOf(t)[k]).part = k - 1

NumOf(t) == Len(PartsOf(t))
Conformant ==
  /\ Ordered /\ stream.eoc
  /\ \A i \in 1..N : Part(i).num \in {0, NumOf(Part(i).tile)}
  /\ stream.tlm # <<>> => \A i \in 1..N : stream.tlm[i] = Part(i).tile
NoPsot0 == \A i \in 1..N : ~Part(i).psot0
NumKnown == \A i \in 1..N : Part(i).part = 0 => Part(i).num # 0

\* The two kinds of codestreams that are not conformant and that the decoder is
\* meant to repair: TNsot one less than it should be, for tiles of three parts
\* or more (issue 254), and, without EOC, last tiles of one part and no TNsot.
OffByOne ==
  /\ Ordered /\ stream.eoc /\ NoPsot0 /\ stream.tlm = <<>> /\ mode # "strict"
  /\ \A t \in Tiles : NumOf(t) > 2
  /\ \A i \in 1..N : Part(i).num = NumOf(Part(i).tile) - 1

Spot6 ==
  /\ Ordered /\ ~stream.eoc /\ ~stream.cut /\ NoPsot0 /\ stream.tlm = <<>>
  /\ N = stream.tiles
  /\ \A i \in 1..N : Part(i).tile = i - 1 /\ Part(i).num \in {0, 1}
  /\ \E i \in 1..N : \A j \in 1..N : Part(j).num = IF j < i THEN 1 ELSE 0

\* What opj_decode decodes.  A Psot of 0 outside the area is not skipped.  Where
\* a TLM marker leads it to the parts of an area, only TNsot in the last part of
\* a tile keeps it from reading on.
Psot0InArea == \A i \in 1..N : Part(i).psot0 => InArea(Part(i).tile)
LastKnown == \A t \in Tiles : Part(Last(PartsOf(t))).num # 0
Sound ==
  \/ Conformant /\ Psot0InArea /\ (planned => LastKnown)
  \/ OffByOne \/ Spot6

\* With these, any tile can be asked for at any time.
RandomAccess == (Conformant /\ NoPsot0 /\ NumKnown) \/ OffByOne

Complete(k) == image[k].data = PartsOf(image[k].tile)

\* opj_decode gives each tile of the area once, with all of its tile-parts in
\* their order, however the parts of the tiles are interleaved, whatever
\* opj_decode did before, and whether or not TLM markers lead it.
AreaExact ==
  pc = "idle" /\ used = "decoded" /\ Sound =>
    /\ \A k \in DOMAIN image : Complete(k)
    /\ \A t \in Tiles : InArea(t) =>
         Cardinality({k \in DOMAIN image : image[k].tile = t}) = 1
    /\ Len(image) = area.to - area.from

\* opj_get_decoded_tile gives the tile asked for, with all of its parts, in
\* whatever order the tiles are asked for, again and again.
TileExact ==
  pc = "idle" /\ used = "tiles" /\ RandomAccess =>
    image = <<[tile |-> wanted, data |-> PartsOf(wanted)]>>

\* TNsot is corrected when a tile that is decoded lacks its last part.  A tile that is
\* skipped is refused if its last part comes before that.
CorrectedInTime == OffByOne =>
  \A i \in 1..N : Part(i).part = Part(i).num /\ ~InArea(Part(i).tile) =>
    \E j \in 1..(i - 1) : Part(j).part = Part(j).num - 1 /\ InArea(Part(j).tile)

\* No call fails because of where the calls before it have left the decoder.
CallsSucceed ==
  /\ pc = "failed" =>
       ~((IF used = "tiles" THEN RandomAccess ELSE Sound) /\ CorrectedInTime)
  /\ pc = "refused" => ~area.inside \/ ~Sound

\* A tile is never put together from parts of other tiles or in another order,
\* whatever the codestream says, nor is one begun that is not asked for, as long
\* as every Psot is given; and the variables have their types.
PartsInOrder ==
  TypeOK /\ (NoPsot0 => \A t \in Tiles :
    /\ data[t] # <<>> => InArea(t)
    /\ \A k \in DOMAIN data[t] : Part(data[t][k]).tile = t /\ Part(data[t][k]).part = k - 1)

\* Between two calls nothing of a codestream of several tiles is in memory...
NothingKept ==
  pc = "idle" /\ ~Single /\ (IF used = "tiles" THEN RandomAccess ELSE Sound) =>
    \A t \in Tiles : data[t] = <<>>

\* ... and the index says where the tile-parts are: a seek never lands elsewhere.
IndexSound ==
  Conformant => \A t \in Tiles : start[t] # NoIndex =>
    \A p \in 0..(nb_tps[t] - 1) :
      start[t][p] # Unset => Part(start[t][p]).tile = t /\ Part(start[t][p]).part = p

\* What a call leaves behind is nothing that the next one could take for its own:
\* no data of an earlier tile, and an index that is right.
LeftBehind == NothingKept /\ IndexSound

\* A tile-part is checked against the part of its tile before it only if that one
\* has been read, whatever is jumped over.
OrderCheckValid ==
  AtSot /\ wanted = -1 /\ Ordered => ~OutOfOrder(Part(Here))

\* Every call returns, whatever the codestream and its TLM say.
CallsReturn == pc \notin Ends ~> pc \in Ends
=============================================================================
