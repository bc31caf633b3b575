------------------------------- MODULE Wavelet -------------------------------
(***************************************************************************)
(* The reversible transforms (dwt.c, mct.c): the 5-3 lifting of a line in  *)
(* both directions, and the colour transform.  A line is a function on     *)
(* 0..n-1; cas is the parity of its first coordinate, and low samples are  *)
(* those at positions of that parity.                                      *)
(***************************************************************************)
EXTENDS Integers

Places(n) == 0..(n - 1)

(* The neighbour of position p, mirrored at the ends: what OPJ_S_, OPJ_D_, *)
(* OPJ_SS_ and OPJ_DD_ do by holding their index in the range.             *)
Near(n, p, d) == IF p + d \in Places(n) THEN p + d ELSE p - d

Predicted(a, n, p) == (a[Near(n, p, -1)] + a[Near(n, p, 1)]) \div 2
Updated(a, n, p) == (a[Near(n, p, -1)] + a[Near(n, p, 1)] + 2) \div 4

(* High samples become what their neighbours do not predict, then the low  *)
(* ones are updated with them.  A line of one sample at an odd coordinate  *)
(* is doubled.                                                             *)
HighLifted(a, n, cas) ==
  [p \in Places(n) |-> IF p % 2 = cas THEN a[p] ELSE a[p] - Predicted(a, n, p)]
LowLifted(a, n, cas) ==
  [p \in Places(n) |-> IF p % 2 = cas THEN a[p] + Updated(a, n, p) ELSE a[p]]
ForwardLine(a, n, cas) ==
  IF n = 1 THEN [p \in Places(n) |-> IF cas = 1 THEN 2 * a[p] ELSE a[p]]
  ELSE LowLifted(HighLifted(a, n, cas), n, cas)

(* C's division by 2, towards zero.                                        *)
Halved(v) == IF v >= 0 THEN v \div 2 ELSE -((-v) \div 2)

(* The synthesis of the low samples of indices low.lo..low.hi-1, then of   *)
(* the high ones of high.lo..high.hi-1.                                    *)
InWindow(p, cas, low, high) ==
  IF p % 2 = cas THEN low.lo <= p \div 2 /\ p \div 2 < low.hi
  ELSE high.lo <= p \div 2 /\ p \div 2 < high.hi

LowRestored(a, n, cas, low, high) ==
  [p \in Places(n) |-> IF p % 2 = cas /\ InWindow(p, cas, low, high)
                       THEN a[p] - Updated(a, n, p) ELSE a[p]]
HighRestored(a, n, cas, low, high) ==
  [p \in Places(n) |-> IF p % 2 # cas /\ InWindow(p, cas, low, high)
                       THEN a[p] + Predicted(a, n, p) ELSE a[p]]
InverseIn(a, n, cas, low, high) ==
  IF n = 1 THEN [p \in Places(n) |-> IF cas = 1 THEN Halved(a[p]) ELSE a[p]]
  ELSE HighRestored(LowRestored(a, n, cas, low, high), n, cas, low, high)

(* Of the whole line.                                                      *)
InverseLine(a, n, cas) == InverseIn(a, n, cas, [lo |-> 0, hi |-> n], [lo |-> 0, hi |-> n])

(* Low samples first, or in their places again; sn of them are low.        *)
Deinterleave(a, n, sn, cas) ==
  [k \in Places(n) |-> IF k < sn THEN a[2 * k + cas] ELSE a[2 * (k - sn) + 1 - cas]]
Interleave(a, n, sn, cas) ==
  [p \in Places(n) |-> IF p % 2 = cas THEN a[p \div 2] ELSE a[sn + (p \div 2)]]

(* The reversible colour transform of a sample, and back.                  *)
MctEncode(c) == [y |-> (c.r + 2 * c.g + c.b) \div 4, u |-> c.b - c.g, v |-> c.r - c.g]
MctDecode(c) ==
  LET g == c.y - (c.u + c.v) \div 4
  IN [r |-> c.v + g, g |-> g, b |-> c.u + g]
==============================================================================
