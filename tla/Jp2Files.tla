------------------------------- MODULE Jp2Files -------------------------------
(***************************************************************************)
(* Files and images for Jp2: channel definitions of every order, palettes  *)
(* of every mapping, and boxes in any place.                               *)
(***************************************************************************)
EXTENDS Integers, SequencesExt

CONSTANT None

Box(b) == b @@ [fault |-> None]
Type(t) == Box([type |-> t])
Ihdr(n) == [type |-> "ihdr", n |-> n]
Bpcc(n) == [type |-> "bpcc", n |-> n]
Pclr(n) == [type |-> "pclr", n |-> n]
Colr(meth, what) == [type |-> "colr", meth |-> meth, what |-> what]
Cdef(defs) == [type |-> "cdef", defs |-> defs]
Cmap(map) == [type |-> "cmap", map |-> map]
Jp2h(boxes) == Box([type |-> "jp2h", boxes |-> boxes])
Def(cn, typ, asoc) == [cn |-> cn, typ |-> typ, asoc |-> asoc]
Entry(cmp, mtyp, pcol) == [cmp |-> cmp, mtyp |-> mtyp, pcol |-> pcol]

Plain == <<Type("jp2c")>>
Sound(n, boxes, rest) ==
  [comps |-> n, boxes |-> <<Type("jp"), Type("ftyp"), Jp2h(<<Ihdr(n)>> \o boxes)>> \o rest]

------------------------------------------------------------------------------
(* Three colours in any places, listed in any order; three with a fourth   *)
(* channel of any component; a channel of which nothing is known; and      *)
(* definitions that name what is not there, or not all that is.            *)
Orders(n) == {p \in [1..n -> 1..n] : \A i, k \in 1..n : p[i] = p[k] => i = k}
Colours(order, places) == [i \in 1..3 |-> Def(order[i] - 1, 0, places[order[i]])]
Opacity(p, asoc) == [i \in 1..4 |-> IF i = 4 THEN Def(p[i] - 1, 1, asoc) ELSE Def(p[i] - 1, 0, i)]
Defined ==
  {Sound(3, <<Colr(1, "srgb"), Cdef(Colours(o, p))>>, Plain) : o, p \in Orders(3)}
    \cup {Sound(4, <<Cdef(Opacity(p, a))>>, Plain) : p \in Orders(4), a \in {0, 2}}
    \cup {Sound(4, <<Cdef(<<Def(0, 1, 0), Def(2, 0, 2), Def(1, 0, 1), Def(3, 65535, 65535)>>)>>,
                Plain)}
    \cup {Sound(2, <<Cdef(<<d[1], d[2]>>)>>, Plain) : d \in
            {<<Def(0, 1, 0), Def(1, 0, 1)>>, <<Def(0, 0, 1), Def(2, 1, 0)>>,
             <<Def(0, 0, 1), Def(0, 1, 0)>>, <<Def(0, 0, 3), Def(1, 1, 0)>>}}

(* Any mapping of one component or two to two channels, three colours from *)
(* a palette that change places, too small a mapping and none.             *)
Mappings == [1..2 -> {Entry(c, t, p) : c, t, p \in 0..1}]
Three == <<Entry(0, 1, 0), Entry(0, 1, 1), Entry(0, 1, 2)>>
Mapped ==
  {Sound(n, <<Colr(1, "srgb"), Pclr(2), Cmap(m)>>, Plain) : n \in 1..2, m \in Mappings}
    \cup {Sound(1, <<Pclr(3), Cmap(Three), Cdef(Colours(o, p))>>, Plain) :
            o \in {<<1, 2, 3>>, <<3, 1, 2>>}, p \in Orders(3)}
    \cup {Sound(2, <<Pclr(1), Cmap(<<Entry(1, 0, 0)>>)>>, Plain), Sound(1, <<Pclr(2)>>, Plain),
          Sound(1, <<Pclr(3), Cmap(<<Entry(0, 1, 0)>>)>>, Plain)}

(* Boxes in any place before the codestream, after it, and in the header.  *)
Pieces ==
  {Type("jp"), Type("ftyp"), Type("uuid"), Type("jp2c"), Jp2h(<<Ihdr(1), Colr(1, "gray"), Pclr(1)>>),
   Jp2h(<<Colr(2, "icc")>>), Box(Colr(3, "srgb")), Box(Colr(2, "icc")), Box(Bpcc(1)),
   Box(Cmap(<<Entry(0, 1, 0)>>)),
   [type |-> "uuid", fault |-> "beyond"], [type |-> "uuid", fault |-> "small"]}
Firsts == {Type("jp"), Type("uuid"), Type("jp2c"), Box(Colr(2, "icc"))}
Mixed ==
  {[comps |-> 1, boxes |-> <<a, b, c, d>> \o Plain] : a \in Firsts, b, c, d \in Pieces}
    \cup {Sound(1, <<>>, Plain \o <<a, b>>) : a, b \in Pieces}
    \cup {Sound(2, b, Plain) : b \in
            {<<Colr(3, "gray"), Colr(2, "icc"), Colr(1, "srgb")>>, <<Bpcc(2)>>, <<Bpcc(1)>>,
             <<Cmap(<<Entry(0, 1, 0)>>), Pclr(1)>>, <<Pclr(1), Pclr(1)>>,
             <<Ihdr(0), Colr(1, "sycc")>>}}
    \cup {[comps |-> 1, boxes |-> <<Type("jp"), Type("ftyp"), Jp2h(<<Bpcc(n), Ihdr(1)>>)>> \o Plain] :
            n \in 0..1}

Files == Defined \cup Mapped \cup Mixed

(* Images of up to five components, any of them alpha channels.            *)
Spaces == {"srgb", "gray", "sycc", "cmyk", "unspecified"}
Given ==
  {[alphas |-> [c \in 0..(n - 1) |-> IF c \in A THEN 1 ELSE 0], space |-> s, icc |-> i, mixed |-> m] :
     n \in 1..5, A \in SUBSET (0..4), s \in Spaces, i \in {None, "icc"}, m \in BOOLEAN}
==============================================================================
