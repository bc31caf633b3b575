------------------------------ MODULE MCDecoder ------------------------------
(* Small codestreams for TLC. *)
EXTENDS Decoder

P(t, p, n) == [tile |-> t, part |-> p, num |-> n, psot0 |-> FALSE]
Z(t, p, n) == [tile |-> t, part |-> p, num |-> n, psot0 |-> TRUE]
S(n, ps) == [tiles |-> n, parts |-> ps, eoc |-> TRUE, cut |-> FALSE, tlm |-> <<>>]
TlmOf(s) == [s EXCEPT !.tlm = [i \in DOMAIN s.parts |-> s.parts[i].tile]]
NoEOC(s) == [s EXCEPT !.eoc = FALSE]
Cut(s) == [s EXCEPT !.eoc = FALSE, !.cut = TRUE]

Rows3 == S(3, <<P(0, 0, 1), P(1, 0, 1), P(2, 0, 1)>>)
Back3 == S(3, <<P(2, 0, 1), P(1, 0, 1), P(0, 0, 1)>>)
Mixed == S(3, <<P(1, 0, 2), P(0, 0, 2), P(2, 0, 1), P(0, 1, 0), P(1, 1, 2)>>)
Quiet == S(2, <<P(0, 0, 0), P(1, 0, 0), P(0, 1, 0), P(1, 1, 0)>>)
Late == S(2, <<P(0, 0, 0), P(1, 0, 1), P(0, 1, 2)>>)
Less == S(2, <<P(0, 0, 2), P(1, 0, 2), P(0, 1, 2), P(1, 1, 2), P(0, 2, 2), P(1, 2, 2)>>)
Successive == S(2, <<P(0, 0, 2), P(0, 1, 2), P(0, 2, 2), P(1, 0, 2), P(1, 1, 2), P(1, 2, 2)>>)
One == S(1, <<P(0, 0, 2), P(0, 1, 2)>>)
Lone3 == NoEOC(S(3, <<P(0, 0, 1), P(1, 0, 0), P(2, 0, 0)>>))

\* Every conformant codestream of two tiles and n tile-parts, however they are
\* interleaved and whichever of them give TNsot.
Conforming(n) ==
  LET order == {o \in [1..n -> 0..1] : {o[i] : i \in 1..n} = 0..1}
      before(o, i) == Cardinality({j \in 1..(i - 1) : o[j] = o[i]})
      total(o, t) == Cardinality({j \in 1..n : o[j] = t})
      parts(o, given) == [i \in 1..n |->
        P(o[i], before(o, i), IF i \in given THEN total(o, o[i]) ELSE 0)]
      plain == {S(2, parts(o, given)) : o \in order, given \in SUBSET (1..n)}
  IN  plain \cup {TlmOf(s) : s \in plain}

GoodStreams == UNION {Conforming(n) : n \in 2..4} \cup {Rows3, Back3, Mixed, TlmOf(Mixed), Quiet, Late, Less, Successive, One, TlmOf(One), Lone3}

\* Truncated, out of order, repeated, missing parts, a wrong TLM.
BadStreams == {
  Cut(Rows3), Cut(Mixed), Cut(One), NoEOC(Rows3), NoEOC(Mixed), NoEOC(One),
  S(2, <<P(0, 1, 2), P(0, 0, 2), P(1, 0, 1)>>),
  S(2, <<P(0, 0, 3), P(1, 0, 1), P(0, 0, 3), P(0, 1, 3)>>),
  S(2, <<P(0, 0, 3), P(0, 2, 3), P(1, 0, 1)>>),
  S(2, <<P(0, 0, 2), P(1, 0, 1)>>),
  S(3, <<P(0, 0, 1), P(2, 0, 1)>>),
  [Mixed EXCEPT !.tlm = <<0, 1, 2, 1, 0>>],
  [Rows3 EXCEPT !.tlm = <<2, 0, 1>>] }

MCStreams == GoodStreams \cup BadStreams
    \cup {S(3, <<P(0, 0, 1), P(1, 0, 1), Z(2, 0, 1)>>),
          S(2, <<P(0, 0, 2), P(1, 0, 1), Z(0, 1, 2)>>), S(2, <<P(1, 0, 0), Z(0, 0, 0)>>)}

\* A TLM, and tile-parts that do not say how many there are.
MCPlanned == {TlmOf(Quiet)}
=============================================================================
