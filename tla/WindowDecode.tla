----------------------------- MODULE WindowDecode -----------------------------
(***************************************************************************)
(* A tile-component transformed by the encoder and decoded over an area    *)
(* (dwt.c, sparse_array.c, tcd.c, t1.c): which code-blocks the area takes, *)
(* the sparse array they are put into, the synthesis of as little as the   *)
(* area needs, level by level; or of all of it, when the area is the tile  *)
(* but for what the reduced resolution does not show.                      *)
(*                                                                         *)
(* Coordinates are those of the tile-component.  An interval is [lo, hi],  *)
(* without hi.                                                             *)
(***************************************************************************)
EXTENDS Wavelet, FiniteSetsExt, TLC

CONSTANTS
  Tiles,      \* [x, y, nres, cblk, data]: intervals, resolutions, block size, samples
  Junk,       \* a sample that nobody has written
  Side,       \* the side of the sparse array's blocks (64 in the code)
  None

VARIABLES
  tile,       \* the tile-component
  pc,         \* "encode", "idle", "rows" and "columns" of level resno, "read", "done",
              \* "empty" when the resolution has no samples
  resno,      \* the resolution at work
  coefs,      \* the encoder's tilec->data, low samples first
  images,     \* history: the samples of every resolution
  area,       \* the area, within the tile: [x, y]
  numres,     \* the resolutions decoded (minimum_num_resolutions)
  whole,      \* whole_tile_decoding
  data,       \* the decoder's tilec->data
  sa,         \* the sparse array
  out         \* what is delivered of the area

vars == <<tile, pc, resno, coefs, images, area, numres, whole, data, sa, out>>

------------------------------------------------------------------------------
(* opj_tcd_init_tile: resolutions, bands and code-blocks.  An axis d is    *)
(* "x" or "y"; of band b the first bit is for x and the second for y.      *)
CeilDivPow2(v, e) == (v + 2^e - 1) \div 2^e
Subs(a, b) == IF a > b THEN a - b ELSE 0
Lesser(a, b) == IF a < b THEN a ELSE b
Greater(a, b) == IF a > b THEN a ELSE b

ResOf(v, r) == CeilDivPow2(v, tile.nres - 1 - r)
Length(d, r) == ResOf(tile[d].hi, r) - ResOf(tile[d].lo, r)
Grid(w, h) == Places(w) \X Places(h)
Across(i, k) == (i.lo..(i.hi - 1)) \X (k.lo..(k.hi - 1))

Bands(r) == IF r = 0 THEN {0} ELSE 1..3
Bit(b, d) == IF d = "x" THEN b % 2 ELSE b \div 2

(* opj_dwt_get_band_coordinates.                                           *)
BandOf(v, r, bit) ==
  LET nb == IF r = 0 THEN tile.nres - 1 ELSE tile.nres - r
  IN IF nb = 0 THEN v
     ELSE IF v <= 2^(nb - 1) * bit THEN 0 ELSE CeilDivPow2(v - 2^(nb - 1) * bit, nb)
Band(i, r, bit) == [lo |-> BandOf(i.lo, r, bit), hi |-> BandOf(i.hi, r, bit)]

Cut(band) ==
  {[lo |-> Greater(band.lo, k * tile.cblk), hi |-> Lesser(band.hi, (k + 1) * tile.cblk)] :
     k \in (band.lo \div tile.cblk)..((band.hi - 1) \div tile.cblk)}
Blocks(r, b) ==
  IF Band(tile.x, r, Bit(b, "x")).lo = Band(tile.x, r, Bit(b, "x")).hi
       \/ Band(tile.y, r, Bit(b, "y")).lo = Band(tile.y, r, Bit(b, "y")).hi
  THEN {}
  ELSE {[r |-> r, b |-> b, x |-> x, y |-> y] :
          x \in Cut(Band(tile.x, r, Bit(b, "x"))), y \in Cut(Band(tile.y, r, Bit(b, "y")))}

(* Where a block is in the array: bands after the lower resolution.        *)
Place(c, d) ==
  LET from == c[d].lo - BandOf(tile[d].lo, c.r, Bit(c.b, d))
                + IF Bit(c.b, d) = 1 THEN Length(d, c.r - 1) ELSE 0
  IN [lo |-> from, hi |-> from + c[d].hi - c[d].lo]

(* opj_tcd_is_subband_area_of_interest, for a filter of 5-3.               *)
Margin_OneLess == 1
Margin == 2
Meets(c, w, d) ==
  LET i == Band(w[d], c.r, Bit(c.b, d))
  IN c[d].lo < i.hi + Margin /\ c[d].hi > Subs(i.lo, Margin)
Taken(w, n) ==
  {c \in UNION {Blocks(r, b) : r \in 0..(n - 1), b \in 0..3} :
     c.b \in Bands(c.r) /\ Meets(c, w, "x") /\ Meets(c, w, "y")}

(* opj_tcd_is_whole_tilecomp_decoding.                                     *)
IsWhole(w, n) ==
  \A d \in {"x", "y"} : /\ (w[d].lo - tile[d].lo) \div 2^(tile.nres - n) = 0
                        /\ (tile[d].hi - w[d].hi) \div 2^(tile.nres - n) = 0

------------------------------------------------------------------------------
(* The sparse array: blocks of bw * bh cells, None until they are written. *)
NewSparse(w, h) ==
  LET bw == Lesser(w, Side)
      bh == Lesser(h, Side)
      hor == (w + bw - 1) \div bw
      ver == (h + bh - 1) \div bh
  IN [w |-> w, h |-> h, bw |-> bw, bh |-> bh, hor |-> hor,
      blocks |-> [b \in Places(hor * ver) |-> None]]

Valid(s, x, y) == x.lo < x.hi /\ x.hi <= s.w /\ y.lo < y.hi /\ y.hi <= s.h

(* The steps of the loop from lo to hi: n cells from the skip-th of block. *)
Pieces(i, size) ==
  {[at |-> v, block |-> v \div size, skip |-> IF v = i.lo THEN i.lo % size ELSE 0,
    n |-> Lesser(IF v = i.lo THEN size - (i.lo % size) ELSE size, i.hi - v)] :
     v \in {i.lo} \cup {k * size : k \in (i.lo \div size + 1)..((i.hi - 1) \div size)}}

(* The block and the cell of every place of a region.                      *)
Cells(s, x, y) ==
  LET px == Pieces(x, s.bw)
      py == Pieces(y, s.bh)
      of(ps, v) == CHOOSE p \in ps : p.at <= v /\ v < p.at + p.n
      cell(p, q, v) == [block |-> q.block * s.hor + p.block,
                        at |-> (q.skip + v[2] - q.at) * s.bw + p.skip + v[1] - p.at]
  IN [v \in Across(x, y) |-> cell(of(px, v[1]), of(py, v[2]), v)]

Read(s, x, y) ==
  IF ~Valid(s, x, y) THEN <<>>
  ELSE LET c == Cells(s, x, y)
       IN [v \in DOMAIN c |-> IF s.blocks[c[v].block] = None THEN 0
                              ELSE s.blocks[c[v].block][c[v].at]]

(* A block written for the first time is zero elsewhere.                   *)
Fresh(s, b) ==
  IF s.blocks[b] = None THEN [k \in Places(s.bw * s.bh) |-> 0] ELSE s.blocks[b]
Write(s, x, y, val) ==
  IF ~Valid(s, x, y) THEN s
  ELSE LET c == Cells(s, x, y)
           touched == {c[v].block : v \in DOMAIN c}
           value(b, k, old) ==
             LET vs == {v \in DOMAIN c : c[v] = [block |-> b, at |-> k]}
             IN IF vs = {} THEN old ELSE val[CHOOSE v \in vs : TRUE]
       IN [s EXCEPT !.blocks = [b \in DOMAIN @ |->
             IF b \notin touched THEN @[b]
             ELSE [k \in Places(s.bw * s.bh) |-> value(b, k, Fresh(s, b)[k])]]]

------------------------------------------------------------------------------
(* An axis of level r: its length n, sn low samples and dn high ones; the  *)
(* samples of the area in either band, grown by the width of the filter;   *)
(* and what can be synthesised of them, lo..hi-1.                          *)
FilterWidth == 2
Grown(i, max) ==
  [lo |-> Subs(i.lo, FilterWidth), hi |-> Lesser(i.hi + FilterWidth, max)]
Relative(i, from) == [lo |-> Subs(i.lo, from), hi |-> Subs(i.hi, from)]
BandWindow(d, r, bit, max) ==
  Grown(Relative(Band(area[d], r, bit), BandOf(tile[d].lo, r, bit)), max)

Level(d, r) ==
  LET n == Length(d, r)
      sn == Length(d, r - 1)
      cas == ResOf(tile[d].lo, r) % 2
      low == BandWindow(d, r, 0, sn)
      high == BandWindow(d, r, 1, n - sn)
  IN [n |-> n, sn |-> sn, cas |-> cas, low |-> low, high |-> high,
      lo |-> Lesser(2 * low.lo + cas, 2 * high.lo + 1 - cas),
      hi |-> Lesser(Greater(2 * low.hi + cas, 2 * high.hi + 1 - cas), n)]

After(i, sn) == [lo |-> sn + i.lo, hi |-> sn + i.hi]
Just(v) == [lo |-> v, hi |-> v + 1]

(* Where in a line with its low samples first the one of position p is.    *)
Source(l, p) == IF p % 2 = l.cas THEN p \div 2 ELSE l.sn + (p \div 2)

(* A row: what the window does not reach of it is what the memory held,    *)
(* but for its last places.                                                *)
DecodeRow(l, s, j) ==
  LET got == Read(s, l.low, Just(j)) @@ Read(s, After(l.high, l.sn), Just(j))
      mem == [p \in Places(l.n) |-> IF l.hi < l.n /\ p \in {l.hi - 1, l.hi} THEN 0 ELSE Junk]
      line == [p \in Places(l.n) |->
                 IF <<Source(l, p), j>> \in DOMAIN got THEN got[<<Source(l, p), j>>] ELSE mem[p]]
      row == InverseIn(line, l.n, l.cas, l.low, l.high)
  IN Write(s, l, Just(j), [v \in Across(l, Just(j)) |-> row[v[1]]])

(* Up to four columns at once, in the interval g.                          *)
DecodeColumns(l, s, g) ==
  LET got == Read(s, g, l.low) @@ Read(s, g, After(l.high, l.sn))
      line(i) == [p \in Places(l.n) |->
                    IF <<i, Source(l, p)>> \in DOMAIN got THEN got[<<i, Source(l, p)>>] ELSE Junk]
      columns == [i \in g.lo..(g.hi - 1) |-> InverseIn(line(i), l.n, l.cas, l.low, l.high)]
  IN Write(s, g, l, [v \in Across(g, l) |-> columns[v[1]][v[2]]])

RowsOf(l) == l.low.lo..(l.low.hi - 1) \cup (l.sn + l.high.lo)..(l.sn + l.high.hi - 1)
Groups(l) ==
  {[lo |-> i, hi |-> Lesser(i + 4, l.hi)] : i \in {k \in l.lo..(l.hi - 1) : (k - l.lo) % 4 = 0}}

------------------------------------------------------------------------------
Init ==
  /\ tile \in Tiles
  /\ pc = "encode"
  /\ resno = tile.nres - 1
  /\ coefs = tile.data
  /\ images = [r \in {} |-> <<>>]
  /\ area = None /\ numres = 0 /\ whole = FALSE
  /\ data = None /\ sa = None /\ out = None

(* opj_dwt_encode_procedure: the columns of a resolution, then its rows.   *)
EncodeLevel ==
  LET w == Length("x", resno)
      h == Length("y", resno)
      columns == [i \in Places(w) |->
        Deinterleave(ForwardLine([j \in Places(h) |-> coefs[<<i, j>>]], h,
                                 ResOf(tile.y.lo, resno) % 2),
                     h, Length("y", resno - 1), ResOf(tile.y.lo, resno) % 2)]
      rows == [j \in Places(h) |->
        Deinterleave(ForwardLine([i \in Places(w) |-> columns[i][j]], w,
                                 ResOf(tile.x.lo, resno) % 2),
                     w, Length("x", resno - 1), ResOf(tile.x.lo, resno) % 2)]
  IN /\ pc = "encode" /\ resno > 0
     /\ coefs' = [v \in DOMAIN coefs |-> IF v \in Grid(w, h) THEN rows[v[2]][v[1]] ELSE coefs[v]]
     /\ images' = (resno :> [v \in Grid(w, h) |-> coefs[v]]) @@ images
     /\ resno' = resno - 1
     /\ UNCHANGED <<tile, pc, area, numres, whole, data, sa, out>>

Encoded ==
  /\ pc = "encode" /\ resno = 0
  /\ images' = (0 :> [v \in Grid(Length("x", 0), Length("y", 0)) |-> coefs[v]]) @@ images
  /\ pc' = "idle"
  /\ UNCHANGED <<tile, resno, coefs, area, numres, whole, data, sa, out>>

(* opj_tcd_decode_tile up to tier 1, for the area w and n resolutions.     *)
Covers(c, v) ==
  /\ Place(c, "x").lo <= v[1] /\ v[1] < Place(c, "x").hi
  /\ Place(c, "y").lo <= v[2] /\ v[2] < Place(c, "y").hi

Begin(w, n) ==
  LET grid == Grid(Length("x", n - 1), Length("y", n - 1))
      taken == Taken(w, n)
      put(c, s) == Write(s, Place(c, "x"), Place(c, "y"), coefs)
  IN /\ pc = "idle"
     /\ area' = w /\ numres' = n /\ whole' = IsWhole(w, n)
     /\ IF grid = {} \/ ~whole' THEN data' = None
        ELSE data' = [v \in grid |-> IF \E c \in taken : Covers(c, v) THEN coefs[v] ELSE Junk]
     /\ IF grid = {} \/ whole' THEN sa' = None
        ELSE sa' = FoldSet(put, NewSparse(Length("x", n - 1), Length("y", n - 1)), taken)
     /\ resno' = 1
     /\ pc' = IF grid = {} THEN "empty" ELSE IF n = 1 THEN "read" ELSE "rows"
     /\ UNCHANGED <<tile, coefs, images, out>>

(* opj_dwt_decode_tile and opj_dwt_decode_partial_tile: of a level, the    *)
(* rows, then the columns.                                                 *)
WholeRows ==
  LET l == Level("x", resno)
      h == Length("y", resno)
      rows == [j \in Places(h) |->
        InverseLine(Interleave([i \in Places(l.n) |-> data[<<i, j>>]], l.n, l.sn, l.cas), l.n, l.cas)]
  IN [v \in DOMAIN data |-> IF v \in Grid(l.n, h) THEN rows[v[2]][v[1]] ELSE data[v]]

WholeColumns ==
  LET l == Level("y", resno)
      w == Length("x", resno)
      columns == [i \in Places(w) |->
        InverseLine(Interleave([j \in Places(l.n) |-> data[<<i, j>>]], l.n, l.sn, l.cas), l.n, l.cas)]
  IN [v \in DOMAIN data |-> IF v \in Grid(w, l.n) THEN columns[v[1]][v[2]] ELSE data[v]]

PartRows ==
  LET step(j, s) == DecodeRow(Level("x", resno), s, j)
  IN FoldSet(step, sa, RowsOf(Level("y", resno)))
PartColumns ==
  LET step(g, s) == DecodeColumns(Level("y", resno), s, g)
  IN FoldSet(step, sa, Groups(Level("x", resno)))

Rows ==
  /\ pc = "rows"
  /\ IF whole THEN data' = WholeRows /\ sa' = sa ELSE sa' = PartRows /\ data' = data
  /\ pc' = "columns"
  /\ UNCHANGED <<tile, resno, coefs, images, area, numres, whole, out>>

Columns ==
  /\ pc = "columns"
  /\ IF whole THEN data' = WholeColumns /\ sa' = sa ELSE sa' = PartColumns /\ data' = data
  /\ resno' = resno + 1
  /\ pc' = IF resno + 1 < numres THEN "rows" ELSE "read"
  /\ UNCHANGED <<tile, coefs, images, area, numres, whole, out>>

(* The area in the resolution decoded, relative to it (win_x0 - x0).       *)
Shown(d) ==
  [lo |-> ResOf(area[d].lo, numres - 1) - ResOf(tile[d].lo, numres - 1),
   hi |-> ResOf(area[d].hi, numres - 1) - ResOf(tile[d].lo, numres - 1)]

ReadArea ==
  /\ pc = "read"
  /\ out' = IF whole THEN data ELSE Read(sa, Shown("x"), Shown("y"))
  /\ pc' = "done"
  /\ UNCHANGED <<tile, resno, coefs, images, area, numres, whole, data, sa>>

Within(i) == {[lo |-> a, hi |-> b] : a, b \in i.lo..i.hi}
Areas ==
  {[x |-> x, y |-> y] : x \in {i \in Within(tile.x) : i.lo < i.hi},
                        y \in {i \in Within(tile.y) : i.lo < i.hi}}

Next ==
  \/ EncodeLevel \/ Encoded
  \/ \E n \in 1..tile.nres, w \in Areas : Begin(w, n)
  \/ Rows \/ Columns \/ ReadArea

Spec == Init /\ [][Next]_vars

------------------------------------------------------------------------------
(* The types of the variables.                                             *)
TypeOK ==
  /\ tile \in Tiles
  /\ pc \in {"encode", "idle", "rows", "columns", "read", "done", "empty"}
  /\ resno \in 0..tile.nres /\ numres \in 0..tile.nres
  /\ coefs \in [DOMAIN tile.data -> Int]
  /\ DOMAIN images \subseteq 0..(tile.nres - 1)
  /\ whole \in BOOLEAN
  /\ area # None => area \in Areas

(* Whatever part of a tile is decoded, at whatever resolution, its samples *)
(* are those the encoder has transformed: no code-block, coefficient or    *)
(* sample that they depend on is left out, and none of the memory's former *)
(* contents is in them.                                                    *)
WindowExact ==
  pc = "done" =>
    LET image == images[numres - 1]
    IN /\ DOMAIN out = IF whole THEN DOMAIN image ELSE Across(Shown("x"), Shown("y"))
       /\ \A v \in DOMAIN out : out[v] = image[v]
==============================================================================
