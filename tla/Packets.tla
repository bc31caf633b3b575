------------------------------- MODULE Packets -------------------------------
(***************************************************************************)
(* The packets of a precinct (t2.c) with their tag trees (tgt.c) and bits  *)
(* (bio.c).  A packet holds what a layer adds to the code-blocks of the    *)
(* precinct; its header tells which blocks it has passes of, how many, and *)
(* how long each codeword segment is.  Encoder and decoder keep the same   *)
(* books in different terms: the encoder has passes, some of them          *)
(* terminated (opj_t1_enc_is_term_pass), the decoder has segments with     *)
(* room for so many passes (opj_t2_init_seg).                              *)
(*                                                                         *)
(* Rate control encodes the layers time and again into a buffer that may   *)
(* be too small (THRESH_CALC) before it encodes them for good; layer 0     *)
(* resets the trees and the blocks.  A decoder skips the bodies of the     *)
(* layers it was told to leave out.  One band with samples and one         *)
(* precinct stand for all: nothing is shared between them but the bits.    *)
(***************************************************************************)
EXTENDS Integers, SequencesExt, Steps

CONSTANTS
  Precincts,    \* the precincts: [w, h] blocks, the bit-planes of the band (bps) and of
                \* each block (planes); code-block styles: "none", "LAZY", "TERMALL";
                \* bounds: how many passes of a block a layer may take (takes), their
                \* lengths, the packets of rate control (tries)
  MaxLayers     \* bound: the layers

VARIABLES
  prc,          \* the precinct
  style,        \* the code-block style
  optimised,    \* built with ENABLE_EMPTY_PACKET_OPTIMIZATION
  keep,         \* num_layers_to_decode
  layno,        \* the next layer
  sending,      \* the packets are encoded for good
  rehearsals,   \* counts the packets of rate control
  enc,          \* the encoder: [incl, msb, blocks]
  dec,          \* the decoder: [incl, msb, blocks]
  coded,        \* what went into each block: its passes [len, term]
  kept,         \* and how many of them are in the layers to decode
  surplus       \* bytes of the last header written and not read

parameters == <<prc, style, optimised, keep>>
vars == <<prc, style, optimised, keep, layno, sending, rehearsals, enc, dec, coded, kept, surplus>>

Blocks == 1..(prc.w * prc.h)

------------------------------------------------------------------------------
(* Bits.                                                                   *)

(* opj_bio_init_enc, opj_bio_putbit, opj_bio_byteout, opj_bio_flush: a     *)
(* byte after 0xff has seven bits, and there is one after a last 0xff.     *)
Pack(bits) ==
  LET room(bytes) == IF bytes # <<>> /\ Last(bytes) = 255 THEN 7 ELSE 8
      put(b, bit) ==
        LET full == b.ct = 0
            bytes == IF full THEN Append(b.bytes, b.buf) ELSE b.bytes
            ct == IF full THEN room(bytes) ELSE b.ct
        IN [bytes |-> bytes, ct |-> ct - 1,
            buf |-> (IF full THEN 0 ELSE b.buf) + bit * 2^(ct - 1)]
      all == Fold(put, [bytes |-> <<>>, buf |-> 0, ct |-> 8], bits)
      out == Append(all.bytes, all.buf)
  IN IF room(out) = 7 THEN Append(out, 0) ELSE out

(* opj_bio_init_dec, opj_bio_getbit, opj_bio_bytein.                       *)
Reader(bytes) == [bytes |-> bytes, bp |-> 0, buf |-> 0, ct |-> 0]
ByteIn(r) ==
  [r EXCEPT !.bp = IF @ < Len(r.bytes) THEN @ + 1 ELSE @,
            !.buf = IF r.bp < Len(r.bytes) THEN r.bytes[r.bp + 1] ELSE 0,
            !.ct = IF r.buf = 255 THEN 7 ELSE 8]
TakeBit(r) ==
  [r |-> [r EXCEPT !.ct = @ - 1], v |-> (r.buf \div 2^(r.ct - 1)) % 2]
GetBit(r) == TakeBit(IF r.ct = 0 THEN ByteIn(r) ELSE r)

(* opj_bio_inalign.                                                        *)
Align(r) == [(IF r.buf = 255 THEN ByteIn(r) ELSE r) EXCEPT !.ct = 0]

(* opj_bio_write, opj_bio_read: the most significant bit first.            *)
Bits(v, n) == [i \in 1..n |-> (v \div 2^(n - i)) % 2]
ReadBits(r, n) ==
  LET put(v, b) == [r |-> b.r, v |-> 2 * v + b.v]
      step(p) == put(p.v, GetBit(p.r))
  IN Repeat(step, [r |-> r, v |-> 0], n)

(* opj_t2_putcommacode, opj_t2_getcommacode: ones up to a zero.            *)
Ones(n) == [i \in 1..n |-> 1]
CommaCode(n) == Append(Ones(n), 0)
MaxCode == 20
ReadComma(r) ==
  LET count(v, b) == [r |-> b.r, v |-> v + b.v, open |-> b.v = 1]
      step(p) == IF p.open THEN count(p.v, GetBit(p.r)) ELSE p
  IN Repeat(step, [r |-> r, v |-> 0, open |-> TRUE], MaxCode)

(* opj_t2_putnumpasses, opj_t2_getnumpasses.                               *)
NumPasses(n) ==
  CASE n = 1 -> <<0>>
    [] n = 2 -> Bits(2, 2)
    [] n \in 3..5 -> Bits(12 + n - 3, 4)
    [] n \in 6..36 -> Bits(480 + n - 6, 9)
    [] n \in 37..164 -> Bits(65408 + n - 37, 16)
(* 1, 1, 2, 5 and 7 bits, of which each but the last go on if all are set. *)
ReadNumPasses(r) ==
  LET from == <<1, 2, 3, 6, 37>>
      take(i, n, b) == [r |-> b.r, v |-> from[i] + b.v, i |-> i + 1, open |-> b.v = 2^n - 1]
      step(p, n) == IF p.open THEN take(p.i, n, ReadBits(p.r, n)) ELSE p
  IN Fold(step, [r |-> r, v |-> 0, i |-> 1, open |-> TRUE], <<1, 1, 2, 5, 7>>)

Max2(m, n) == IF m > n THEN m ELSE n
FloorLog2(n) == CHOOSE k \in 0..20 : 2^k <= Max2(n, 1) /\ n < 2^(k + 1)

------------------------------------------------------------------------------
(* Tag trees: a node is [level, x, y], the leaves are at level 0 and the   *)
(* parent of a node has half its coordinates (opj_tgt_create).             *)

Width(n, level) == (n + 2^level - 1) \div 2^level
Levels == CHOOSE k \in 0..8 : Width(prc.w, k) * Width(prc.h, k) = 1
                              /\ \A j \in 0..(k - 1) : Width(prc.w, j) * Width(prc.h, j) > 1
Nodes == UNION {{k} \X (0..(Width(prc.w, k) - 1)) \X (0..(Width(prc.h, k) - 1)) : k \in 0..Levels}
Leaf(b) == <<0, (b - 1) % prc.w, (b - 1) \div prc.w>>
(* From the root to the leaf of block b.                                   *)
Path(b) == [i \in 1..(Levels + 1) |->
              LET k == Levels + 1 - i IN <<k, Leaf(b)[2] \div 2^k, Leaf(b)[3] \div 2^k>>]

Unset == 999
(* opj_tgt_reset.                                                          *)
ResetTree == [n \in Nodes |-> [value |-> Unset, low |-> 0, known |-> FALSE]]

(* opj_tgt_setvalue: up the tree as long as the value gets less.           *)
SetValue(tree, b, value) ==
  LET path == Path(b)
      less(i) == \A j \in i..Len(path) : tree[path[j]].value > value
  IN [n \in Nodes |->
        IF \E i \in DOMAIN path : path[i] = n /\ less(i)
        THEN [tree[n] EXCEPT !.value = value] ELSE tree[n]]

(* opj_tgt_encode: a node is told up to its value, or the threshold.       *)
TgtEncode(tree, b, threshold) ==
  LET told(acc, n, low, up, tell) ==
        [low |-> up,
         bits |-> acc.bits \o [i \in 1..(up - low) |-> 0] \o (IF tell THEN <<1>> ELSE <<>>),
         tree |-> [acc.tree EXCEPT ![n].low = up, ![n].known = @ \/ tell]]
      upto(acc, n, low, up) == told(acc, n, low, up, up < threshold /\ ~acc.tree[n].known)
      from(acc, n, low) ==
        upto(acc, n, low, Max2(low, IF acc.tree[n].value < threshold THEN acc.tree[n].value
                                                                     ELSE threshold))
      visit(acc, n) == from(acc, n, Max2(acc.low, acc.tree[n].low))
  IN Fold(visit, [tree |-> tree, low |-> 0, bits |-> <<>>], Path(b))

(* opj_tgt_decode.                                                         *)
TgtDecode(r, tree, b, threshold) ==
  LET told(p, bit) == [r |-> bit.r,
                       low |-> IF bit.v = 1 THEN p.low ELSE p.low + 1,
                       value |-> IF bit.v = 1 THEN p.low ELSE p.value]
      step(p) == IF p.low >= threshold \/ p.low >= p.value THEN p ELSE told(p, GetBit(p.r))
      left(acc, n, p) == [r |-> p.r, low |-> p.low,
                          tree |-> [acc.tree EXCEPT ![n].low = p.low, ![n].value = p.value]]
      visit(acc, n) ==
        left(acc, n, Repeat(step, [r |-> acc.r, low |-> Max2(acc.low, acc.tree[n].low),
                                   value |-> acc.tree[n].value], threshold + 1))
      end(p) == [r |-> p.r, tree |-> p.tree, v |-> p.tree[Leaf(b)].value < threshold]
  IN end(Fold(visit, [r |-> r, tree |-> tree, low |-> 0], Path(b)))

------------------------------------------------------------------------------
(* The encoder.                                                            *)

(* opj_t1_enc_is_term_pass, of the pass k (from 1) of block b.             *)
Term(b, k) ==
  LET passtype == (k + 1) % 3
      bpno == prc.planes[b] - 1 - ((k + 1) \div 3)
  IN \/ passtype = 2 /\ bpno = 0
     \/ style = "TERMALL"
     \/ /\ style = "LAZY"
        /\ \/ bpno = prc.planes[b] - 4 /\ passtype = 2
           \/ bpno < prc.planes[b] - 4 /\ passtype > 0
TotalPasses(b) == IF prc.planes[b] = 0 THEN 0 ELSE 3 * prc.planes[b] - 2

(* The runs of passes of a layer whose length is told in one number.       *)
Lumps(new) ==
  LET add(acc, p) ==
        LET lump == [n |-> acc.open.n + 1, len |-> acc.open.len + p.len]
        IN IF p.term THEN [done |-> Append(acc.done, lump), open |-> [n |-> 0, len |-> 0]]
           ELSE [acc EXCEPT !.open = lump]
      all == Fold(add, [done |-> <<>>, open |-> [n |-> 0, len |-> 0]], new)
  IN IF all.open.n = 0 THEN all.done ELSE Append(all.done, all.open)

NoPasses(layer) == \A b \in Blocks : layer[b] = <<>>

Fresh_KeepsPasses(e) ==
  LET set(tree, b) == SetValue(tree, b, prc.bps - prc.planes[b])
  IN IF layno # 0 THEN e
     ELSE [e EXCEPT !.incl = ResetTree, !.msb = Fold(set, ResetTree, [b \in Blocks |-> b])]

(* Layer 0: the trees and the blocks as they are before the first packet.  *)
Fresh(e) ==
  LET set(tree, b) == SetValue(tree, b, prc.bps - prc.planes[b])
  IN IF layno # 0 THEN e
     ELSE [incl |-> ResetTree,
           msb |-> Fold(set, ResetTree, [b \in Blocks |-> b]),
           blocks |-> [b \in Blocks |-> [e.blocks[b] EXCEPT !.numpasses = 0]]]

(* The lengths of the lumps, after what they ask the length indicator to   *)
(* grow by.                                                                *)
Increment(lumps, lenbits) ==
  Max({FloorLog2(l.len) + 1 - (lenbits + FloorLog2(l.n)) : l \in ToSet(lumps)} \cup {0})
Lengths(lumps, lenbits) ==
  FlattenSeq([i \in DOMAIN lumps |-> Bits(lumps[i].len, lenbits + FloorLog2(lumps[i].n))])

(* The header of a block in the packet.                                    *)
EncodeIncluded(acc, b, new) ==
  LET first(t) == [e |-> [acc.e EXCEPT !.incl = t.tree], bits |-> acc.bits \o t.bits]
  IN IF acc.e.blocks[b].numpasses = 0 THEN first(TgtEncode(acc.e.incl, b, layno + 1))
     ELSE [acc EXCEPT !.bits = Append(@, IF new # <<>> THEN 1 ELSE 0)]
EncodePlanes(acc, b) ==
  LET first(t) == [e |-> [acc.e EXCEPT !.msb = t.tree, !.blocks[b].numlenbits = 3],
                   bits |-> acc.bits \o t.bits]
  IN IF acc.e.blocks[b].numpasses = 0 THEN first(TgtEncode(acc.e.msb, b, Unset)) ELSE acc
EncodePasses(acc, b, new) ==
  LET lenbits == acc.e.blocks[b].numlenbits
      grown(lumps, n) == [e |-> [acc.e EXCEPT !.blocks[b].numlenbits = lenbits + n],
                          bits |-> acc.bits \o NumPasses(Len(new)) \o CommaCode(n)
                                   \o Lengths(lumps, lenbits + n)]
      with(lumps) == grown(lumps, Increment(lumps, lenbits))
  IN with(Lumps(new))
EncodeBlock(acc, b, new) ==
  IF new = <<>> THEN EncodeIncluded(acc, b, new)
  ELSE EncodePasses(EncodePlanes(EncodeIncluded(acc, b, new), b), b, new)

(* opj_t2_encode_packet up to the body, of a layer (the new passes of      *)
(* every block).                                                           *)
EncodeHeader(layer) ==
  LET e == Fresh(enc)
      set(tree, b) == IF e.blocks[b].numpasses = 0 /\ layer[b] # <<>>
                      THEN SetValue(tree, b, layno) ELSE tree
      order == [b \in Blocks |-> b]
      block(acc, b) == EncodeBlock(acc, b, layer[b])
      start == [e |-> [e EXCEPT !.incl = Fold(set, @, order)], bits |-> <<1>>]
  IN IF optimised /\ NoPasses(layer) THEN [e |-> e, bits |-> <<0>>]
     ELSE Fold(block, start, order)

(* The body: it counts the passes of the blocks up to n.                   *)
WithBody(e, layer, n) ==
  [e EXCEPT !.blocks = [b \in Blocks |->
     IF b <= n THEN [@[b] EXCEPT !.numpasses = @ + Len(layer[b])] ELSE @[b]]]

------------------------------------------------------------------------------
(* The decoder.                                                            *)

(* opj_t2_init_seg.                                                        *)
MaxPassesOf(segs) ==
  CASE style = "TERMALL" -> 1
    [] style = "LAZY" -> IF segs = <<>> THEN 10
                         ELSE IF Last(segs).maxpasses \in {1, 10} THEN 2 ELSE 1
    [] OTHER -> 109
NewSeg(segs) == Append(segs, [numpasses |-> 0, maxpasses |-> MaxPassesOf(segs), len |-> 0,
                              real |-> 0, newpasses |-> 0, newlen |-> 0])
IsFull(segs) == segs = <<>> \/ Last(segs).numpasses = Last(segs).maxpasses

(* The lengths of the segments that n new passes are in: acc.n is what is  *)
(* left of them.                                                           *)
ReadLengths(r, segs, lenbits, n) ==
  LET filled(p, take, len) ==
        [p.segs EXCEPT ![Len(p.segs)].newpasses = take, ![Len(p.segs)].newlen = len.v]
      next(p, take, len) ==
        [r |-> len.r, n |-> p.n - take,
         segs |-> IF p.n > take THEN NewSeg(filled(p, take, len)) ELSE filled(p, take, len)]
      fill(p, take) == next(p, take, ReadBits(p.r, lenbits + FloorLog2(take)))
      room(p) == Last(p.segs).maxpasses - Last(p.segs).numpasses
      step(p) == IF p.n = 0 THEN p ELSE fill(p, IF room(p) < p.n THEN room(p) ELSE p.n)
  IN Repeat(step, [r |-> r, n |-> n, segs |-> IF IsFull(segs) THEN NewSeg(segs) ELSE segs], n)

(* The zero bit-planes: thresholds from 0 on until the tree tells.         *)
ReadMsb(r, tree, b) ==
  LET tell(i, t) == [r |-> t.r, tree |-> t.tree, v |-> t.v, i |-> i]
      step(p) == IF p.v THEN p ELSE tell(p.i + 1, TgtDecode(p.r, p.tree, b, p.i + 1))
  IN Repeat(step, [r |-> r, tree |-> tree, v |-> FALSE, i |-> -1], prc.bps + 2)

(* A block in opj_t2_read_packet_header.  A block with segments has        *)
(* been included before.                                                   *)
ReadIncluded(acc, b) ==
  LET first(t) == [r |-> t.r, v |-> t.v, d |-> [acc.d EXCEPT !.incl = t.tree]]
      again(t) == [r |-> t.r, v |-> t.v = 1, d |-> acc.d]
  IN IF acc.d.blocks[b].segs = <<>> THEN first(TgtDecode(acc.r, acc.d.incl, b, layno + 1))
     ELSE again(ReadBits(acc.r, 1))
ReadPlanes(p, b) ==
  LET first(t) == [r |-> t.r, d |-> [p.d EXCEPT !.msb = t.tree,
                                                !.blocks[b].numlenbits = 3,
                                                !.blocks[b].numbps = prc.bps + 1 - t.i]]
  IN IF p.d.blocks[b].segs = <<>> THEN first(ReadMsb(p.r, p.d.msb, b)) ELSE p
ReadPasses(p, b) ==
  LET block == p.d.blocks[b]
      cut(n, lenbits, l) ==
        [r |-> l.r, d |-> [p.d EXCEPT !.blocks[b] = [@ EXCEPT !.newpasses = n, !.segs = l.segs,
                                                              !.numlenbits = lenbits]]]
      lengths(n, r, lenbits) == cut(n, lenbits, ReadLengths(r, block.segs, lenbits, n))
      comma(n, c) == lengths(n, c.r, block.numlenbits + c.v)
      num(t) == comma(t.v, ReadComma(t.r))
  IN num(ReadNumPasses(p.r))
DecodeBlock(acc, b) ==
  LET told(p) == IF p.v THEN ReadPasses(ReadPlanes(p, b), b)
                 ELSE [r |-> p.r, d |-> [p.d EXCEPT !.blocks[b].newpasses = 0]]
  IN told(ReadIncluded(acc, b))

(* opj_t2_read_packet_header.                                              *)
DecodeHeader(bytes) ==
  LET d == IF layno # 0 THEN dec
           ELSE [incl |-> ResetTree, msb |-> ResetTree,
                 blocks |-> [b \in Blocks |-> [dec.blocks[b] EXCEPT !.segs = <<>>]]]
      end(p, data) == [d |-> p.d, read |-> Align(p.r).bp, data |-> data]
      told(bit) ==
        IF bit.v = 0 THEN end([r |-> bit.r, d |-> d], FALSE)
        ELSE end(Fold(DecodeBlock, [r |-> bit.r, d |-> d], [b \in Blocks |-> b]), TRUE)
  IN told(GetBit(Reader(bytes)))

(* opj_t2_read_packet_data, and opj_t2_skip_packet_data, which counts the  *)
(* passes but keeps no data.                                               *)
DecodeBody(d, skip) ==
  [d EXCEPT !.blocks = [b \in Blocks |->
     IF @[b].newpasses = 0 THEN @[b]
     ELSE [@[b] EXCEPT
             !.newpasses = 0,
             !.segs = [i \in DOMAIN @ |->
               LET s == @[i] IN
               [s EXCEPT !.numpasses = @ + s.newpasses, !.newpasses = 0, !.newlen = 0,
                         !.len = IF skip THEN @ ELSE @ + s.newlen,
                         !.real = IF skip \/ s.newpasses = 0 THEN @ ELSE s.numpasses + s.newpasses]]]]]

------------------------------------------------------------------------------
Init ==
  /\ prc \in Precincts
  /\ style \in prc.styles
  /\ optimised \in BOOLEAN
  /\ keep \in 1..MaxLayers
  /\ layno = 0
  /\ sending = FALSE
  /\ rehearsals = 0
  /\ enc = [incl |-> ResetTree, msb |-> ResetTree,
            blocks |-> [b \in Blocks |-> [numpasses |-> 0, numlenbits |-> 0]]]
  /\ dec = [incl |-> ResetTree, msb |-> ResetTree,
            blocks |-> [b \in Blocks |-> [newpasses |-> 0, numlenbits |-> 0, numbps |-> 0, segs |-> <<>>]]]
  /\ coded = [b \in Blocks |-> <<>>]
  /\ kept = [b \in Blocks |-> 0]
  /\ surplus = 0

(* What a layer may add to block b that has n passes in it.                *)
Additions(b, n) ==
  {[i \in 1..k |-> [len |-> l, term |-> Term(b, n + i)]] :
     k \in {t \in prc.takes : n + t <= TotalPasses(b)}, l \in prc.lengths}
Done(b) == IF layno = 0 THEN 0 ELSE enc.blocks[b].numpasses
Layers == [Blocks -> UNION {Additions(b, Done(b)) : b \in Blocks}]
Legal(layer) == \A b \in Blocks : layer[b] \in Additions(b, Done(b))

(* Rate control tries a packet; it may find no room after the bodies of n  *)
(* blocks, and begins again at layer 0 whenever it likes.                  *)
Rehearse ==
  /\ ~sending
  /\ rehearsals < prc.tries
  /\ rehearsals' = rehearsals + 1
  /\ \E layer \in Layers : Legal(layer) /\
       \E n \in 0..Cardinality(Blocks), h \in {EncodeHeader(layer)} :
         /\ enc' = WithBody(h.e, layer, n)
         /\ layno' \in IF n = Cardinality(Blocks) /\ layno + 1 < MaxLayers THEN {0, layno + 1} ELSE {0}
  /\ UNCHANGED <<parameters, sending, dec, coded, kept, surplus>>

(* A packet is written, and read by the decoder.                           *)
Send(layer) ==
  \E h \in {EncodeHeader(layer)} : \E bytes \in {Pack(h.bits)} : \E g \in {DecodeHeader(bytes)} :
     LET skip == layno >= keep
     IN /\ enc' = WithBody(h.e, layer, Cardinality(Blocks))
        /\ dec' = IF g.data THEN DecodeBody(g.d, skip) ELSE g.d
        /\ surplus' = Len(bytes) - g.read
        /\ coded' = [b \in Blocks |-> coded[b] \o layer[b]]
        /\ kept' = IF skip THEN kept ELSE [b \in Blocks |-> Len(coded'[b])]

Packet ==
  /\ layno < MaxLayers
  /\ layno = 0 \/ sending
  /\ sending' = TRUE
  /\ \E layer \in Layers : Legal(layer) /\ Send(layer)
  /\ layno' = layno + 1
  /\ UNCHANGED <<parameters, rehearsals>>

Next == Rehearse \/ Packet
Spec == Init /\ [][Next]_vars

------------------------------------------------------------------------------
(* The nodes of both sides' trees, and the segments of a block, which are  *)
(* never fuller than they may be.                                          *)
TypeOK ==
  /\ prc \in Precincts /\ style \in prc.styles /\ keep \in 1..MaxLayers
  /\ layno \in 0..MaxLayers /\ rehearsals \in 0..prc.tries
  /\ \A t \in {enc.incl, enc.msb, dec.incl, dec.msb} : \A n \in Nodes :
       t[n].value \in 0..Unset /\ t[n].low \in 0..Unset /\ t[n].low <= t[n].value
  /\ \A b \in Blocks :
       /\ enc.blocks[b].numpasses \in 0..TotalPasses(b)
       /\ enc.blocks[b].numlenbits \in 0..32
       /\ \A i \in DOMAIN dec.blocks[b].segs :
            LET s == dec.blocks[b].segs[i] IN s.real <= s.numpasses /\ s.numpasses \in 1..s.maxpasses

(* The decoder reads a header to its last byte, and has the length         *)
(* indicator and the bit-planes of every block that the encoder has.       *)
HeadersReadBack ==
  /\ surplus = 0
  /\ \A b \in Blocks : coded[b] # <<>> =>
       /\ dec.blocks[b].numlenbits = enc.blocks[b].numlenbits
       /\ dec.blocks[b].numbps = prc.planes[b]

(* The decoder cuts the passes of a block where the encoder terminated     *)
(* them, and has the bytes and the passes of the layers it decodes.        *)
BlocksReadBack ==
  \A b \in Blocks :
    LET segs == dec.blocks[b].segs
        end[i \in 0..Len(segs)] == IF i = 0 THEN 0 ELSE end[i - 1] + segs[i].numpasses
        of(i) == (end[i - 1] + 1)..end[i]
        here(i) == {k \in of(i) : k <= kept[b]}
        bytes(K) == FoldSet(LAMBDA k, n : n + coded[b][k].len, 0, K)
    IN /\ end[Len(segs)] = Len(coded[b])
       /\ \A i \in DOMAIN segs :
            /\ of(i) # {}
            /\ \A k \in of(i) : coded[b][k].term => k = end[i]
            /\ i < Len(segs) => coded[b][end[i]].term
            /\ segs[i].len = bytes(here(i))
            /\ segs[i].real = Cardinality(here(i))

PacketsReadBack == HeadersReadBack /\ BlocksReadBack
==============================================================================
