------------------------------ MODULE BlockCoder ------------------------------
(***************************************************************************)
(* The entropy coder of a code-block (mqc.c): the MQ coder and the raw     *)
(* bits of the bypass mode, the termination of a segment (flush, erterm,   *)
(* bypass_flush) and the start of the next one in the same bytes, and the  *)
(* decoder that is run over a segment, or over as much of it as the passes *)
(* of the layers that were read.                                           *)
(*                                                                         *)
(* Which symbol a pass codes in which context is t1.c's business and any   *)
(* choice here.  The model starts in a block at work: with contexts in any *)
(* of the states Starts and some last byte of an earlier segment.          *)
(***************************************************************************)
EXTENDS Integers, SequencesExt, Steps

CONSTANTS
  Starts,      \* the contexts' states at the start: functions to [i, mps]
  Before,      \* the last byte of the segment before
  Runs,        \* how many equal symbols are coded at once
  MaxRuns,     \* bound: runs in a block
  MaxPasses    \* bound: passes in a block

VARIABLES
  before,      \* the byte before
  pterm,       \* predictable termination (J2K_CCP_CBLKSTY_PTERM)
  pc,          \* "pass", "between" passes when the last is terminated, "end"
  ctxs,        \* the state of every context
  mqc,         \* the coder: [a, c, ct, data, bp]
  segs,        \* the segments: [type, from, ctxs, code, to]
  passes,      \* the passes: [seg, n, rate], n symbols into the segment
  runs         \* counts the runs

vars == <<before, pterm, pc, ctxs, mqc, segs, passes, runs>>

(* mqc_states: the probability, the next state after the more and after    *)
(* the less probable symbol, and whether the latter exchanges the two.     *)
States == <<
  <<22017, 1, 1, 1>>, <<13313, 2, 6, 0>>, <<6145, 3, 9, 0>>, <<2753, 4, 12, 0>>, <<1313, 5, 29, 0>>,
  <<545, 38, 33, 0>>, <<22017, 7, 6, 1>>, <<21505, 8, 14, 0>>, <<18433, 9, 14, 0>>, <<14337, 10, 14, 0>>,
  <<12289, 11, 17, 0>>, <<9217, 12, 18, 0>>, <<7169, 13, 20, 0>>, <<5633, 29, 21, 0>>, <<22017, 15, 14, 1>>,
  <<21505, 16, 14, 0>>, <<20737, 17, 15, 0>>, <<18433, 18, 16, 0>>, <<14337, 19, 17, 0>>, <<13313, 20, 18, 0>>,
  <<12289, 21, 19, 0>>, <<10241, 22, 19, 0>>, <<9217, 23, 20, 0>>, <<8705, 24, 21, 0>>, <<7169, 25, 22, 0>>,
  <<6145, 26, 23, 0>>, <<5633, 27, 24, 0>>, <<5121, 28, 25, 0>>, <<4609, 29, 26, 0>>, <<4353, 30, 27, 0>>,
  <<2753, 31, 28, 0>>, <<2497, 32, 29, 0>>, <<2209, 33, 30, 0>>, <<1313, 34, 31, 0>>, <<1089, 35, 32, 0>>,
  <<673, 36, 33, 0>>, <<545, 37, 34, 0>>, <<321, 38, 35, 0>>, <<273, 39, 36, 0>>, <<133, 40, 37, 0>>,
  <<73, 41, 38, 0>>, <<37, 42, 39, 0>>, <<21, 43, 40, 0>>, <<9, 44, 41, 0>>, <<5, 45, 42, 0>>,
  <<1, 45, 43, 0>>, <<22017, 46, 46, 0>> >>

Qe(s) == States[s.i + 1][1]
Nmps(s) == [s EXCEPT !.i = States[s.i + 1][2]]
Nlps(s) == [i |-> States[s.i + 1][3], mps |-> (s.mps + States[s.i + 1][4]) % 2]

Half == 32768                      \* 0x8000
Shifts(a) == CHOOSE k \in 1..15 : a * 2^k >= Half /\ \A j \in 1..(k - 1) : a * 2^j < Half

------------------------------------------------------------------------------
(* The encoder.  data[1] is the byte before the segment; bp points at the  *)
(* last byte written while the MQ coder runs, and past it otherwise.       *)

(* opj_mqc_byteout.                                                        *)
ByteOut(m) ==
  LET carry == m.data[m.bp] # 255 /\ (m.c \div 2^27) % 2 = 1
      last == m.data[m.bp] + IF carry THEN 1 ELSE 0
      c == IF carry /\ last = 255 THEN m.c % 2^27 ELSE m.c
      shift == IF last = 255 THEN 20 ELSE 19
  IN [m EXCEPT !.data = SubSeq(@, 1, m.bp - 1) \o <<last, (c \div 2^shift) % 256>>,
               !.bp = @ + 1,
               !.c = c % 2^shift,
               !.ct = IF last = 255 THEN 7 ELSE 8]

(* opj_mqc_renorme_macro.                                                  *)
Renorme(m) ==
  LET step(n) == LET s == [n EXCEPT !.a = 2 * @, !.c = 2 * @, !.ct = @ - 1]
                 IN IF s.ct = 0 THEN ByteOut(s) ELSE s
  IN Repeat(step, m, Shifts(m.a))

(* opj_mqc_encode_macro: of a symbol d in a context of state s, the coder  *)
(* and the context's state after it.                                       *)
Encode(m, s, d) ==
  LET a == m.a - Qe(s)
      upper == [m EXCEPT !.a = a, !.c = @ + Qe(s)]
      lower == [m EXCEPT !.a = Qe(s)]
  IN IF d = s.mps
     THEN IF a >= Half THEN [m |-> upper, s |-> s]
          ELSE [m |-> Renorme(IF a < Qe(s) THEN lower ELSE upper), s |-> Nmps(s)]
     ELSE [m |-> Renorme(IF a < Qe(s) THEN upper ELSE lower), s |-> Nlps(s)]

(* opj_mqc_bypass_enc.                                                     *)
BypassInit == 99                   \* BYPASS_CT_INIT
BypassEnc(m, d) ==
  LET ct == (IF m.ct = BypassInit THEN 8 ELSE m.ct) - 1
      c == m.c + d * 2^ct
  IN IF ct > 0 THEN [m EXCEPT !.c = c, !.ct = ct]
     ELSE [m EXCEPT !.data = Append(SubSeq(@, 1, m.bp - 1), c), !.bp = @ + 1,
                    !.c = 0, !.ct = IF c = 255 THEN 7 ELSE 8]

SetBits_TooFar(m) == [m EXCEPT !.c = @ - (@ % 65536) + 65535]

(* opj_mqc_setbits, opj_mqc_flush.                                         *)
SetBits(m) ==
  LET c == m.c - (m.c % 65536) + 65535
  IN [m EXCEPT !.c = IF c >= m.c + m.a THEN c - Half ELSE c]
ShiftOut(m) == ByteOut([m EXCEPT !.c = @ * 2^m.ct])
PastFF(m) == IF m.data[m.bp] = 255 THEN m ELSE [m EXCEPT !.bp = @ + 1]
Flush(m) == PastFF(ShiftOut(ShiftOut(SetBits(m))))

(* opj_mqc_erterm_enc: shifts the coder out as long as k > 0.              *)
Erterm(m) ==
  LET step(n) == IF n.k <= 0 THEN n
                 ELSE LET o == ShiftOut(n.m) IN [m |-> o, k |-> n.k - o.ct]
      out == Repeat(step, [m |-> m, k |-> 12 - m.ct], 2).m
  IN IF out.data[out.bp] = 255 THEN out ELSE ByteOut(out)

(* opj_mqc_bypass_flush_enc: fills the byte with 0, 1, 0...                *)
ByteBegun(m, erterm) == m.ct < 7 \/ (m.ct = 7 /\ (erterm \/ m.data[m.bp - 1] # 255))
BypassFlush(m, erterm) ==
  CASE ByteBegun(m, erterm) ->
         [m EXCEPT !.data = Append(SubSeq(@, 1, m.bp - 1), m.c + 2^m.ct \div 3), !.bp = @ + 1]
    [] ~ByteBegun(m, erterm) /\ m.ct = 7 -> [m EXCEPT !.bp = @ - 1]
    [] m.ct = 8 /\ ~erterm /\ m.data[m.bp - 1] = 127 /\ m.data[m.bp - 2] = 255 ->
         [m EXCEPT !.bp = @ - 2]
    [] OTHER -> m

(* opj_mqc_numbytes, counted with the byte before.                         *)
NumBytes(m) == m.bp - 1

------------------------------------------------------------------------------
(* The decoder over data[from..to], followed by two bytes of 0xff.         *)

Byte(from, to, i) == IF from + i - 1 > to THEN 255 ELSE mqc.data[from + i - 1]

(* The 32 bits of c are two halves of 16 bits.                             *)
Plus(m, x) == [m EXCEPT !.hi = @ + (m.lo + x) \div 65536, !.lo = (@ + x) % 65536]
Doubled(m) == [m EXCEPT !.hi = (2 * @ + m.lo \div Half) % 65536, !.lo = (2 * @) % 65536,
                        !.ct = @ - 1]

(* opj_mqc_bytein_macro.                                                   *)
ByteIn(from, to, m) ==
  LET next == Byte(from, to, m.bp + 1)
  IN CASE Byte(from, to, m.bp) # 255 ->
            [Plus(m, next * 256) EXCEPT !.bp = @ + 1, !.ct = 8]
       [] Byte(from, to, m.bp) = 255 /\ next <= 143 ->
            [Plus(m, next * 512) EXCEPT !.bp = @ + 1, !.ct = 7]
       [] OTHER -> [Plus(m, 65280) EXCEPT !.ct = 8, !.markers = @ + 1]

(* opj_mqc_init_dec.                                                       *)
InitDec(from, to) ==
  Repeat(Doubled, ByteIn(from, to, [a |-> Half, hi |-> Byte(from, to, 1), lo |-> 0, ct |-> 0,
                                    bp |-> 1, markers |-> 0]), 7)

(* opj_mqc_decode_macro.                                                   *)
Decode(from, to, m, s) ==
  LET step(n) == [Doubled(IF n.ct = 0 THEN ByteIn(from, to, n) ELSE n) EXCEPT !.a = 2 * @]
      renorm(n) == Repeat(step, n, Shifts(n.a))
      a == m.a - Qe(s)
      lps == m.hi < Qe(s)
      exchange == a < Qe(s)
      rest == [m EXCEPT !.a = a, !.hi = @ - Qe(s)]
  IN CASE lps -> [m |-> renorm([m EXCEPT !.a = Qe(s)]),
                  s |-> IF exchange THEN Nmps(s) ELSE Nlps(s),
                  d |-> IF exchange THEN s.mps ELSE 1 - s.mps]
       [] ~lps /\ a < Half -> [m |-> renorm(rest),
                               s |-> IF exchange THEN Nlps(s) ELSE Nmps(s),
                               d |-> IF exchange THEN 1 - s.mps ELSE s.mps]
       [] OTHER -> [m |-> rest, s |-> s, d |-> s.mps]

(* opj_mqc_raw_init_dec, opj_mqc_raw_decode.                               *)
RawInit == [c |-> 0, ct |-> 0, bp |-> 1]
RawDecode(from, to, m) ==
  LET b == Byte(from, to, m.bp)
      n == CASE m.ct > 0 -> m
             [] m.ct = 0 /\ m.c = 255 /\ b > 143 -> [m EXCEPT !.ct = 8]
             [] m.ct = 0 /\ m.c = 255 /\ b <= 143 -> [c |-> b, ct |-> 7, bp |-> m.bp + 1]
             [] OTHER -> [c |-> b, ct |-> 8, bp |-> m.bp + 1]
  IN [m |-> [n EXCEPT !.ct = @ - 1], d |-> (n.c \div 2^(n.ct - 1)) % 2]

(* The first n symbols of a segment as they are decoded when it ends at    *)
(* `to`, and the coder's registers after them.                             *)
DecodeSeg(seg, n, to) ==
  LET mq(acc, sym) ==
        LET r == Decode(seg.from, to, acc.m, acc.ctxs[sym[1]])
        IN [m |-> r.m, ctxs |-> [acc.ctxs EXCEPT ![sym[1]] = r.s],
            code |-> Append(acc.code, <<sym[1], r.d>>)]
      raw(acc, sym) ==
        LET r == RawDecode(seg.from, to, acc.m)
        IN [acc EXCEPT !.m = r.m, !.code = Append(@, <<sym[1], r.d>>)]
      start(m) == [m |-> m, ctxs |-> seg.ctxs, code |-> <<>>]
  IN IF seg.type = "mq"
     THEN Fold(mq, start(InitDec(seg.from, to)), SubSeq(seg.code, 1, n))
     ELSE Fold(raw, start(RawInit), SubSeq(seg.code, 1, n))

------------------------------------------------------------------------------
(* A block is coded.                                                       *)

Segment(type, from) == [type |-> type, from |-> from, ctxs |-> ctxs, code |-> <<>>, to |-> -1]

Init ==
  /\ before \in Before
  /\ pterm \in BOOLEAN
  /\ pc = "between"
  /\ ctxs \in Starts
  /\ mqc = [a |-> 0, c |-> 0, ct |-> 0, data |-> <<before>>, bp |-> 2]
  /\ segs = <<>>
  /\ passes = <<>>
  /\ runs = 0

(* The first pass after a terminated one: opj_mqc_restart_init_enc, or     *)
(* opj_mqc_bypass_init_enc.                                                *)
BeginMq ==
  /\ pc = "between"
  /\ Len(passes) < MaxPasses
  /\ pc' = "pass"
  /\ mqc' = [mqc EXCEPT !.a = Half, !.c = 0, !.ct = 12, !.bp = @ - 1]
  /\ segs' = Append(segs, Segment("mq", mqc.bp))
  /\ UNCHANGED <<before, pterm, ctxs, passes, runs>>

BeginRaw ==
  /\ pc = "between"
  /\ Len(passes) < MaxPasses
  /\ pc' = "pass"
  /\ mqc' = [mqc EXCEPT !.c = 0, !.ct = BypassInit]
  /\ segs' = Append(segs, Segment("raw", mqc.bp))
  /\ UNCHANGED <<before, pterm, ctxs, passes, runs>>

Current == Last(segs)
Coded(cx, d, n) ==
  segs' = [segs EXCEPT ![Len(segs)].code = @ \o [i \in 1..n |-> <<cx, d>>]]

(* n times the symbol d, in a context or raw.                              *)
CodeMq(cx, d, n) ==
  /\ pc = "pass" /\ Current.type = "mq"
  /\ runs < MaxRuns
  /\ LET step(x) == Encode(x.m, x.s, d)
         x == Repeat(step, [m |-> mqc, s |-> ctxs[cx]], n)
     IN \E r \in {x} : mqc' = r.m /\ ctxs' = [ctxs EXCEPT ![cx] = r.s]
  /\ Coded(cx, d, n)
  /\ runs' = runs + 1
  /\ UNCHANGED <<before, pterm, pc, passes>>

CodeRaw(d, n) ==
  /\ pc = "pass" /\ Current.type = "raw"
  /\ runs < MaxRuns
  /\ LET step(m) == BypassEnc(m, d) IN mqc' = Repeat(step, mqc, n)
  /\ Coded(0, d, n)
  /\ runs' = runs + 1
  /\ UNCHANGED <<before, pterm, pc, ctxs>> /\ UNCHANGED passes

Pass(rate) == [seg |-> Len(segs), n |-> Len(Current.code), rate |-> rate]

(* A pass ends and the segment goes on: the pass needs the bytes written   *)
(* and some more (rate_extra_bytes).                                       *)
ExtraBytes == IF Current.type = "mq" THEN 3
              ELSE IF ByteBegun(mqc, pterm) THEN 1 ELSE 0
EndPass ==
  /\ pc = "pass"
  /\ Len(passes) < MaxPasses - 1
  /\ passes' = Append(passes, Pass(NumBytes(mqc) + ExtraBytes))
  /\ UNCHANGED <<before, pterm, pc, ctxs, mqc, segs, runs>>

(* A terminated pass.                                                      *)
Terminate ==
  /\ pc = "pass"
  /\ mqc' = CASE Current.type = "raw" -> BypassFlush(mqc, pterm)
              [] Current.type = "mq" /\ pterm -> Erterm(mqc)
              [] OTHER -> Flush(mqc)
  /\ segs' = [segs EXCEPT ![Len(segs)].to = NumBytes(mqc')]
  /\ passes' = Append(passes, Pass(NumBytes(mqc')))
  /\ pc' = "between"
  /\ UNCHANGED <<before, pterm, ctxs, runs>>

(* The end of opj_t1_encode_cblk: no pass takes more than a later one, nor *)
(* ends in 0xff.                                                           *)
Rates ==
  LET least(k) == CHOOSE r \in {passes[j].rate : j \in k..Len(passes)} :
                    \A j \in k..Len(passes) : r <= passes[j].rate
  IN [k \in DOMAIN passes |->
        IF least(k) > 1 /\ mqc.data[least(k)] = 255 THEN least(k) - 1 ELSE least(k)]
Finish ==
  /\ pc = "between" /\ segs # <<>>
  /\ pc' = "end"
  /\ passes' = [k \in DOMAIN passes |-> [passes[k] EXCEPT !.rate = Rates[k]]]
  /\ UNCHANGED <<before, pterm, ctxs, mqc, segs, runs>>

Next ==
  \/ BeginMq \/ BeginRaw \/ EndPass \/ Terminate \/ Finish
  \/ \E d \in {0, 1}, n \in Runs : CodeRaw(d, n) \/ \E cx \in DOMAIN ctxs : CodeMq(cx, d, n)

Spec == Init /\ [][Next]_vars

------------------------------------------------------------------------------
(* The registers: 16 bits of a, 28 of c; the bytes written are bytes.      *)
TypeOK ==
  /\ pc \in {"pass", "between", "end"} /\ runs \in 0..MaxRuns
  /\ mqc.a \in 0..65535 /\ mqc.c \in 0..(2^28 - 1)
  /\ mqc.ct \in 0..12 \cup {BypassInit}
  /\ \A k \in DOMAIN mqc.data : mqc.data[k] \in 0..255
  /\ mqc.bp \in 1..(Len(mqc.data) + 1)
  /\ \A cx \in DOMAIN ctxs : ctxs[cx].i \in 0..46 /\ ctxs[cx].mps \in {0, 1}

Closed == {i \in DOMAIN segs : segs[i].to >= 0}

(* A terminated segment is decoded into what was coded, whatever has been  *)
(* written after it.                                                       *)
SegmentsReadBack ==
  \A i \in Closed : DecodeSeg(segs[i], Len(segs[i].code), segs[i].to).code = segs[i].code

(* Never a marker in the data, never 0xff at the end of a segment, and the *)
(* bytes of a segment are not touched by a later one.                      *)
Stuffed ==
  /\ mqc.data[1] = before
  /\ \A i \in Closed : \A k \in segs[i].from..segs[i].to :
       mqc.data[k] = 255 => k < segs[i].to /\ mqc.data[k + 1] <= 143

(* What is read up to the rate of a pass decodes the symbols of the pass,  *)
(* when the pass is terminated or raw.                                     *)
PassesReadBack ==
  pc = "end" =>
    \A k \in DOMAIN passes :
      LET seg == segs[passes[k].seg]
      IN seg.type = "raw" \/ passes[k].n = Len(seg.code) =>
           DecodeSeg(seg, passes[k].n, passes[k].rate).code = SubSeq(seg.code, 1, passes[k].n)

(* The check of the decoder for a predictable termination is content.      *)
PtermHolds ==
  pterm => \A i \in Closed :
    LET seg == segs[i]  m == DecodeSeg(seg, Len(seg.code), seg.to).m
    IN seg.type = "mq" => m.bp + 2 >= seg.to - seg.from + 2 /\ m.markers <= 2

CodeReadBack == SegmentsReadBack /\ Stuffed /\ PassesReadBack /\ PtermHolds
==============================================================================
