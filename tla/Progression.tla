----------------------------- MODULE Progression -----------------------------
(***************************************************************************)
(* The packet iterator (pi.c): in which order the packets of a tile are    *)
(* visited.  An iterator has a progression order and a range per loop; it  *)
(* walks over the loops and marks in `include` the packets it has given.   *)
(* What it gives next is thus the earliest packet, in the order of its     *)
(* loops, that is not marked; a visit is a record of the loop variables.   *)
(*                                                                         *)
(* A tile is a record [x, y, nres, layers]; each axis has the extent       *)
(* lo..hi-1 on the reference grid, the subsampling d of every component    *)
(* and the exponent p of the precinct size of every resolution.            *)
(***************************************************************************)
EXTENDS Integers, FiniteSetsExt, Steps

Orders == {"LRCP", "RLCP", "RPCL", "PCRL", "CPRL"}
ByPosition == {"RPCL", "PCRL", "CPRL"}

(* j2k_prog_order_list: the loops of an order, the outermost first. *)
Loops(prg) ==
  CASE prg = "LRCP" -> <<"L", "R", "C", "P">>
    [] prg = "RLCP" -> <<"R", "L", "C", "P">>
    [] prg = "RPCL" -> <<"R", "P", "C", "L">>
    [] prg = "PCRL" -> <<"P", "C", "R", "L">>
    [] prg = "CPRL" -> <<"C", "P", "R", "L">>

CeilDiv(a, b) == (a + b - 1) \div b

NumComps(t) == Cardinality(DOMAIN t.x.d)
Comps(t) == 0..(NumComps(t) - 1)
Resolutions(t) == 0..(t.nres - 1)

(* The subsampling of component c at resolution r, and the extent there.   *)
Scale(t, a, c, r) == t[a].d[c] * 2^(t.nres - 1 - r)
Lo(t, a, c, r) == CeilDiv(t[a].lo, Scale(t, a, c, r))
Hi(t, a, c, r) == CeilDiv(t[a].hi, Scale(t, a, c, r))

(* How many precincts there are along an axis, and in all (pw, ph).        *)
Along(t, a, c, r) ==
  IF Lo(t, a, c, r) = Hi(t, a, c, r) THEN 0
  ELSE CeilDiv(Hi(t, a, c, r), 2^t[a].p[r]) - Lo(t, a, c, r) \div 2^t[a].p[r]
Precincts(t, c, r) == Along(t, "x", c, r) * Along(t, "y", c, r)
MaxPrecincts(t) == Max({Precincts(t, c, r) : c \in Comps(t), r \in Resolutions(t)})

(* The size of a precinct on the reference grid, and the smallest of them, *)
(* by which the loops over the position advance (dx, dy).                  *)
Cell(t, a, c, r) == Scale(t, a, c, r) * 2^t[a].p[r]
Stride(t, a, C) == Min({Cell(t, a, c, r) : c \in C, r \in Resolutions(t)})

(* v is where a precinct begins: on the grid, or at the tile's border.     *)
Begins(t, a, c, r, v) ==
  \/ v % Cell(t, a, c, r) = 0
  \/ v = t[a].lo /\ Lo(t, a, c, r) % 2^t[a].p[r] # 0
Number(t, a, c, r, v) ==
  CeilDiv(v, Scale(t, a, c, r)) \div 2^t[a].p[r] - Lo(t, a, c, r) \div 2^t[a].p[r]

Upto(range) == range[1]..(range[2] - 1)
Places(range, d) == {v \in Upto(range) : v = range[1] \/ v % d = 0}

(* The visits of an iterator whose loops have the ranges rg, and X and Y   *)
(* where it is by position.  A `whole` iterator (tp_on is 0) takes every   *)
(* precinct, whatever the ranges of the precinct loops say.                *)
Counted(t, rg, whole) ==
  {[l |-> l, r |-> r, c |-> c, p |-> p, x |-> 0, y |-> 0] :
     <<l, r, c, p>> \in
       {q \in Upto(rg.L) \X (Upto(rg.R) \cap Resolutions(t)) \X Upto(rg.C)
                 \X (0..(MaxPrecincts(t) - 1)) :
          IF whole THEN q[4] < Precincts(t, q[3], q[2]) ELSE q[4] \in Upto(rg.P)}}

Placed(t, prg, rg, whole) ==
  LET over(a, c) ==
        Places(IF whole THEN <<t[a].lo, t[a].hi>> ELSE rg[a],
               Stride(t, a, IF prg = "CPRL" THEN {c} ELSE Comps(t)))
      at(c, r) == {<<x, y>> \in over("x", c) \X over("y", c) :
                     Begins(t, "x", c, r, x) /\ Begins(t, "y", c, r, y)}
      number(c, r, q) == Number(t, "x", c, r, q[1])
                         + Number(t, "y", c, r, q[2]) * Along(t, "x", c, r)
      of(c, r) == {[l |-> l, r |-> r, c |-> c, p |-> number(c, r, q), x |-> q[1], y |-> q[2]] :
                     l \in Upto(rg.L), q \in at(c, r)}
  IN UNION {of(c, r) : <<c, r>> \in
              {q \in Upto(rg.C) \X (Upto(rg.R) \cap Resolutions(t)) : Precincts(t, q[1], q[2]) > 0}}

Visits(t, prg, rg, whole) ==
  IF prg \in ByPosition THEN Placed(t, prg, rg, whole) ELSE Counted(t, rg, whole)

(* The loop variables, the outermost first.                                *)
Key(prg, v) ==
  CASE prg = "LRCP" -> <<v.l, v.r, v.c, v.p>>
    [] prg = "RLCP" -> <<v.r, v.l, v.c, v.p>>
    [] prg = "RPCL" -> <<v.r, v.y, v.x, v.c, v.l>>
    [] prg = "PCRL" -> <<v.y, v.x, v.c, v.r, v.l>>
    [] prg = "CPRL" -> <<v.c, v.y, v.x, v.r, v.l>>
Before(prg, v, w) ==
  LET a == Key(prg, v)  b == Key(prg, w)
  IN \E i \in DOMAIN a : a[i] < b[i] /\ \A j \in 1..(i - 1) : a[j] = b[j]

(* The place of a packet in `include`, which has room for so many layers.  *)
Slot(t, v) ==
  v.p + MaxPrecincts(t) * (v.c + NumComps(t) * (v.r + t.nres * v.l))
Slots(t, layers) == 0..(layers * t.nres * NumComps(t) * MaxPrecincts(t) - 1)

(* opj_pi_next: the set of the next visit, empty when there is none or     *)
(* when its slot is outside `include`.                                     *)
NextVisit(t, prg, rg, whole, include, layers) ==
  LET first(left) == {v \in left : \A w \in left : w = v \/ Before(prg, v, w)}
      there(q) == {v \in first(q) : Slot(t, v) \in Slots(t, layers)}
  IN Once(there, {v \in Visits(t, prg, rg, whole) : Slot(t, v) \notin include})
==============================================================================
