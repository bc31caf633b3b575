------------------------------- MODULE TileGrid -------------------------------
(***************************************************************************)
(* Along one axis: the tiles of an image, what they are in a component     *)
(* that is subsampled and reduced, and what of one interval of samples is  *)
(* copied into another (opj_intmath.h, j2k.c, tcd.c).  An interval is      *)
(* [lo, hi], without hi; an axis a has the image, lo..hi-1, and its tiles, *)
(* of td from t0 on.                                                       *)
(***************************************************************************)
EXTENDS Integers

CeilDiv(a, b) == (a + b - 1) \div b
CeilDivPow2(v, e) == CeilDiv(v, 2^e)
Lesser(a, b) == IF a < b THEN a ELSE b
Greater(a, b) == IF a > b THEN a ELSE b
Subs(a, b) == IF a > b THEN a - b ELSE 0

Sampled(i, s) == [lo |-> CeilDiv(i.lo, s), hi |-> CeilDiv(i.hi, s)]
Reduced(i, e) == Sampled(i, 2^e)

NumTiles(a) == CeilDiv(a.hi - a.t0, a.td)
TileOn(a, p) ==
  [lo |-> Greater(a.t0 + p * a.td, a.lo), hi |-> Lesser(a.t0 + p * a.td + a.td, a.hi)]

(* The tiles of an area: from StartTile on, without EndTile.               *)
StartTile(a, lo) == IF lo < a.lo THEN 0 ELSE (lo - a.t0) \div a.td
EndTile(a, hi) == IF hi > a.hi THEN NumTiles(a) ELSE CeilDiv(hi - a.t0, a.td)

(* Of the source s into the destination e: how much to skip of s, where to *)
(* start in e, and how many samples, less than none if they do not meet.   *)
Clip_StartsAt0(s, e) ==
  LET skip == IF e.lo < s.lo THEN 0 ELSE e.lo - s.lo
  IN [skip |-> skip, start |-> 0,
      n |-> IF e.hi >= s.hi THEN s.hi - s.lo - skip ELSE e.hi - Greater(e.lo, s.lo)]

Clip(s, e) ==
  LET skip == IF e.lo < s.lo THEN 0 ELSE e.lo - s.lo
  IN [skip |-> skip,
      start |-> IF e.lo < s.lo THEN s.lo - e.lo ELSE 0,
      n |-> IF e.hi >= s.hi THEN s.hi - s.lo - skip ELSE e.hi - Greater(e.lo, s.lo)]
==============================================================================
