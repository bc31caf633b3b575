------------------------------ MODULE ImageArea ------------------------------
(***************************************************************************)
(* The image and its tiles (j2k.c, image.c, tcd.c): the sizes that a call  *)
(* gives the components of the caller's image, the tiles it decodes, in    *)
(* the order of the codestream, and where each puts its samples; and how   *)
(* the encoder cuts an image into tiles.                                   *)
(*                                                                         *)
(* An axis d is "x" or "y"; an interval is [lo, hi], without hi.  A sample *)
(* is <<r, x, y>>, its place in resolution r of its component.             *)
(***************************************************************************)
EXTENDS TileGrid, FiniteSets, FiniteSetsExt

CONSTANTS
  Images,     \* [x, y, sub, nres]: of an axis lo, hi, t0, td (XOsiz, Xsiz, XTOsiz, XTsiz),
              \* sub[c][d] the subsampling of component c, and the resolutions
  Margins,    \* how far from the image an area may begin and end
  MaxCalls,   \* calls of opj_get_decoded_tile
  Junk,       \* memory that nobody has written
  None

VARIABLES
  img,        \* m_private_image and m_cp, or the image to encode
  red,        \* m_reduce
  out,        \* the caller's image: area, factor, and for a component and an axis
              \* where it begins (at: x0, y0) and its size (n: w, h)
  by,         \* what has given the components these sizes
  range,      \* m_start_tile_x and so on: the tiles of each axis
  pc,         \* "header" (read), "tiles", "update" after a tile, "done", "failed";
              \* "cut" in the encoder
  todo,       \* tiles to come
  cur,        \* the tile at work
  whole,      \* whole_tile_decoding
  resno,      \* resno_decoded of each component
  kept,       \* components whose tilec->data is not NULL
  data,       \* the samples of each component of the codec's output image, line by line
  calls

vars == <<img, red, out, by, range, pc, todo, cur, whole, resno, kept, data, calls>>

Axes == {"x", "y"}
Comps == DOMAIN img.sub

------------------------------------------------------------------------------
(* Tiles, and what they are in a component.                                *)
At(t, d) == IF d = "x" THEN t[1] ELSE t[2]
AllTiles == (0..(NumTiles(img.x) - 1)) \X (0..(NumTiles(img.y) - 1))

TileComp(t, c, d) == Sampled(TileOn(img[d], At(t, d)), img.sub[c][d])

(* opj_tcd_decode_tile: the part of it that the area asks for.             *)
Window(t, c, d) ==
  LET w == Sampled(out.area[d], img.sub[c][d])
  IN [lo |-> Greater(TileComp(t, c, d).lo, w.lo), hi |-> Lesser(TileComp(t, c, d).hi, w.hi)]

Full(t, c) == \A d \in Axes : TileComp(t, c, d).lo < TileComp(t, c, d).hi

(* opj_tcd_is_whole_tilecomp_decoding.                                     *)
IsWhole(t, c) ==
  \A d \in Axes :
    /\ (Window(t, c, d).lo - TileComp(t, c, d).lo) \div 2^red = 0
    /\ (TileComp(t, c, d).hi - Window(t, c, d).hi) \div 2^red = 0

NumRes == img.nres - red
Res(i, r) == Reduced(i, img.nres - 1 - r)

------------------------------------------------------------------------------
(* opj_t2_decode_packets: packets of a resolution are in the codestream if *)
(* it has samples, and taken if they are near the area.                    *)
InBand(v, r, bit) ==
  LET nb == IF r = 0 THEN img.nres - 1 ELSE img.nres - r
  IN IF nb = 0 THEN v
     ELSE IF v <= 2^(nb - 1) * bit THEN 0 ELSE CeilDivPow2(v - 2^(nb - 1) * bit, nb)

Near(t, c, r, d, bit) ==
  /\ InBand(TileComp(t, c, d).lo, r, bit) < InBand(Window(t, c, d).hi, r, bit) + 2
  /\ InBand(TileComp(t, c, d).hi, r, bit) > Subs(InBand(Window(t, c, d).lo, r, bit), 2)

BandsOf(r) == IF r = 0 THEN {<<0, 0>>} ELSE {<<1, 0>>, <<0, 1>>, <<1, 1>>}

Sent(t, c) ==
  {r \in 0..(img.nres - 1) :
     \A d \in Axes : Res(TileComp(t, c, d), r).lo < Res(TileComp(t, c, d), r).hi}
Taken(t, c) ==
  {r \in Sent(t, c) : /\ r < NumRes
                      /\ \E b \in BandsOf(r) : \A d \in Axes : Near(t, c, r, d, At(b, d))}

(* A component without packets has the resolution it began with; one whose *)
(* first packet is skipped the one that was asked for.                     *)
Decoded(t, c) ==
  IF Sent(t, c) = {} THEN 0
  ELSE IF Min(Sent(t, c)) \in Taken(t, c) THEN Max(Taken(t, c)) ELSE NumRes - 1

------------------------------------------------------------------------------
(* The sizes of the components of an image: opj_image_comp_header_update,  *)
(* and opj_j2k_update_image_dimensions, as in opj_j2k_get_tile.            *)
HeaderSize(a, s, f) ==
  LET lo == Greater(a.t0, a.lo)
      hi == Lesser(a.t0 + NumTiles(a) * a.td, a.hi)
  IN [at |-> CeilDiv(lo, s), n |-> CeilDivPow2(CeilDiv(hi, s) - CeilDiv(lo, s), f)]

AreaSize(i, s, f) ==
  [at |-> CeilDiv(i.lo, s),
   n |-> CeilDivPow2(CeilDiv(i.hi, s), f) - CeilDivPow2(CeilDiv(i.lo, s), f)]

Measured(area, f) ==
  [area |-> area, factor |-> f,
   comps |-> [c \in Comps |-> [d \in Axes |-> AreaSize(area[d], img.sub[c][d], f)]]]

WholeImage(i) == [d \in Axes |-> [lo |-> i[d].lo, hi |-> i[d].hi]]

Init ==
  /\ img \in Images
  /\ red \in 0..(img.nres - 1)
  /\ out = [area |-> WholeImage(img), factor |-> red,
            comps |-> [c \in DOMAIN img.sub |->
                         [d \in Axes |-> HeaderSize(img[d], img.sub[c][d], red)]]]
  /\ by = "header"
  /\ range = [d \in Axes |-> 0..(NumTiles(img[d]) - 1)]
  /\ pc = "header" /\ todo = {} /\ cur = None /\ whole = TRUE
  /\ resno = [c \in DOMAIN img.sub |-> 0]
  /\ kept = {}
  /\ data = [c \in DOMAIN img.sub |-> None]
  /\ calls = 0

(* opj_set_decoded_resolution_factor, after a header read without one.     *)
SetFactor(f) ==
  /\ pc = "header" /\ by = "header" /\ out.factor = 0
  /\ red' = f
  /\ UNCHANGED <<img, out, by, range, pc, todo, cur, whole, resno, kept, data, calls>>

(* opj_set_decode_area: an area that meets the image, or all of it.        *)
SetArea(w) ==
  /\ pc = "header" /\ by = "header"
  /\ range' = [d \in Axes |-> StartTile(img[d], w[d].lo)..(EndTile(img[d], w[d].hi) - 1)]
  /\ out' = Measured([d \in Axes |-> [lo |-> Greater(w[d].lo, img[d].lo),
                                      hi |-> Lesser(w[d].hi, img[d].hi)]], red)
  /\ by' = "area"
  /\ UNCHANGED <<img, red, pc, todo, cur, whole, resno, kept, data, calls>>

SetWholeArea ==
  /\ pc = "header" /\ by = "header"
  /\ out' = Measured(WholeImage(img), red)
  /\ by' = "area"
  /\ UNCHANGED <<img, red, range, pc, todo, cur, whole, resno, kept, data, calls>>

(* opj_decode: the sizes are taken again if the factor was set after them. *)
NotReduced == by = "header" /\ red > 0 /\ out.factor = 0

Decode ==
  /\ pc = "header"
  /\ IF NotReduced THEN out' = Measured(out.area, red) /\ by' = "decode"
     ELSE UNCHANGED <<out, by>>
  /\ todo' = range.x \X range.y
  /\ pc' = "tiles"
  /\ UNCHANGED <<img, red, range, cur, whole, resno, kept, data, calls>>

(* opj_get_decoded_tile.                                                   *)
GetTile(t) ==
  /\ <<pc, by>> \in {<<"header", "header">>, <<"done", "tile">>}
  /\ calls < MaxCalls
  /\ out' = Measured([d \in Axes |-> TileOn(img[d], At(t, d))], red)
  /\ by' = "tile"
  /\ todo' = {t} /\ data' = [c \in Comps |-> None]
  /\ pc' = "tiles" /\ calls' = calls + 1
  /\ UNCHANGED <<img, red, range, cur, whole, resno, kept>>

------------------------------------------------------------------------------
(* opj_tcd_init_decode_tile and opj_tcd_decode_tile.  A buffer for no      *)
(* samples is NULL, unless there is one of an earlier tile.                *)
HasSamples(t, c) == \A d \in Axes : LET i == Res(TileComp(t, c, d), NumRes - 1) IN i.lo < i.hi

DecodeTile(t) ==
  /\ pc = "tiles" /\ t \in todo
  /\ cur' = t /\ todo' = todo \ {t}
  /\ whole' = \A c \in Comps : IsWhole(t, c)
  /\ resno' = [c \in Comps |-> Decoded(t, c)]
  /\ kept' = IF whole' THEN kept \cup {c \in Comps : HasSamples(t, c)} ELSE kept
  /\ pc' = "update"
  /\ UNCHANGED <<img, red, out, by, range, data, calls>>

(* What the buffer of a component holds: its intervals, and the length of  *)
(* its lines.  A single sample at the origin is the same in every          *)
(* resolution (the transform leaves it alone).                             *)
Source(c, d) == Res(IF whole THEN TileComp(cur, c, d) ELSE Window(cur, c, d), resno[c])
Stride(c) ==
  IF whole THEN LET i == Res(TileComp(cur, c, "x"), NumRes - 1) IN i.hi - i.lo
  ELSE Source(c, "x").hi - Source(c, "x").lo
Present(c) ==
  IF whole THEN c \in kept ELSE \A d \in Axes : Source(c, d).lo < Source(c, d).hi

Single(t, c) ==
  \A d \in Axes : TileComp(t, c, d).hi = TileComp(t, c, d).lo + 1 /\ TileComp(t, c, d).lo = 0
Held(c, k) ==
  <<IF Single(cur, c) THEN NumRes - 1 ELSE resno[c],
    Source(c, "x").lo + (k % Stride(c)), Source(c, "y").lo + (k \div Stride(c))>>

(* Where in the image of the caller: the component, and what there is of   *)
(* the buffer.                                                             *)
Target(c, d) ==
  LET lo == CeilDivPow2(out.comps[c][d].at, out.factor)
  IN [lo |-> lo, hi |-> lo + out.comps[c][d].n]
Part(c, d) == Clip(Source(c, d), Target(c, d))

Width(c) == out.comps[c].x.n
Height(c) == out.comps[c].y.n

(* The buffer is the component: it changes hands.                          *)
Borrowed(c) ==
  /\ data[c] = None
  /\ \A d \in Axes : /\ Part(c, d).skip = 0 /\ Part(c, d).start = 0
                     /\ Part(c, d).n = out.comps[c][d].n
  /\ Stride(c) = Width(c)

Misfit(c) ==
  /\ Present(c)
  /\ \/ \E d \in Axes : Part(c, d).n < 0
     \/ /\ data[c] = None /\ ~Borrowed(c)
        /\ \E d \in Axes : out.comps[c][d].n = 0

Allocated(c) ==
  LET partial == Part(c, "x").n # Width(c) \/ Part(c, "y").n # Height(c)
  IN [k \in 0..(Width(c) * Height(c) - 1) |-> IF partial THEN 0 ELSE Junk]

Updated(c) ==
  LET x == Part(c, "x")
      y == Part(c, "y")
      old == IF data[c] = None THEN Allocated(c) ELSE data[c]
      column(k) == (k % Width(c)) - x.start
      line(k) == (k \div Width(c)) - y.start
  IN IF ~Present(c) THEN data[c]
     ELSE [k \in DOMAIN old |->
             IF column(k) \in 0..(x.n - 1) /\ line(k) \in 0..(y.n - 1)
             THEN Held(c, x.skip + column(k) + (y.skip + line(k)) * Stride(c))
             ELSE old[k]]

(* The image is its one tile, at the origin: opj_j2k_decode_tiles takes    *)
(* the buffers as they are.                                                *)
IsTile ==
  /\ by # "tile" /\ Cardinality(AllTiles) = 1
  /\ \A d \in Axes : img[d].t0 = 0 /\ out.area[d].lo = 0 /\ out.area[d].hi = img[d].td

Taking(c) ==
  IF c \notin kept THEN None
  ELSE [k \in 0..(Stride(c) * (Source(c, "y").hi - Source(c, "y").lo) - 1) |-> Held(c, k)]

TakeTile ==
  /\ pc = "update" /\ IsTile
  /\ data' = [c \in Comps |-> Taking(c)]
  /\ kept' = {} /\ pc' = "done"
  /\ UNCHANGED <<img, red, out, by, range, todo, cur, whole, resno, calls>>

(* opj_j2k_update_image_data.                                              *)
UpdateImage ==
  /\ pc = "update" /\ ~IsTile /\ ~\E c \in Comps : Misfit(c)
  /\ data' = [c \in Comps |-> Updated(c)]
  /\ kept' = IF whole THEN {c \in kept : ~Borrowed(c)} ELSE kept
  /\ pc' = "tiles"
  /\ UNCHANGED <<img, red, out, by, range, todo, cur, whole, resno, calls>>

UpdateFails ==
  /\ pc = "update" /\ ~IsTile /\ \E c \in Comps : Misfit(c)
  /\ pc' = "failed"
  /\ UNCHANGED <<img, red, out, by, range, todo, cur, whole, resno, kept, data, calls>>

(* opj_j2k_are_all_used_components_decoded.                                *)
Return ==
  /\ pc = "tiles" /\ todo = {}
  /\ pc' = IF \E c \in Comps : data[c] = None THEN "failed" ELSE "done"
  /\ UNCHANGED <<img, red, out, by, range, todo, cur, whole, resno, kept, data, calls>>

------------------------------------------------------------------------------
(* opj_j2k_get_tile_data: the samples of a tile, out of lines that are as  *)
(* long as it takes them to be.                                            *)
Line(c) == CeilDiv(img.x.hi - img.x.lo, img.sub[c].x)
RealLine(c) == LET i == Sampled(img.x, img.sub[c].x) IN i.hi - i.lo
Pixel(c, k) ==
  LET first(d) == CeilDiv(img[d].lo, img.sub[c][d])
      n == RealLine(c) * (CeilDiv(img.y.hi, img.sub[c].y) - first("y"))
  IN IF k < n THEN <<img.nres - 1, first("x") + (k % RealLine(c)),
                first("y") + (k \div RealLine(c))>>
     ELSE Junk

CutOf(t, c) ==
  LET x == TileComp(t, c, "x")
      y == TileComp(t, c, "y")
      offset == (x.lo - CeilDiv(img.x.lo, img.sub[c].x))
                  + (y.lo - CeilDiv(img.y.lo, img.sub[c].y)) * Line(c)
      w == x.hi - x.lo
  IN [k \in 0..(w * (y.hi - y.lo) - 1) |-> Pixel(c, offset + (k % w) + (k \div w) * Line(c))]

(* opj_j2k_encode, but for an image of one tile that is used in its place. *)
CutTile(t) ==
  /\ pc = "header" /\ by = "header" /\ red = 0
  /\ cur' = t /\ data' = [c \in Comps |-> CutOf(t, c)]
  /\ pc' = "cut"
  /\ UNCHANGED <<img, red, out, by, range, todo, whole, resno, kept, calls>>

------------------------------------------------------------------------------
Around(a) ==
  {[lo |-> v, hi |-> w] : v \in Subs(a.lo, Margins)..(a.hi - 1), w \in (a.lo + 1)..(a.hi + Margins)}
Areas == {[x |-> x, y |-> y] : x \in {i \in Around(img.x) : i.lo < i.hi},
                               y \in {i \in Around(img.y) : i.lo < i.hi}}

Next ==
  \/ \E f \in 1..(img.nres - 1) : SetFactor(f)
  \/ \E w \in Areas : SetArea(w)
  \/ SetWholeArea \/ Decode
  \/ \E t \in AllTiles : GetTile(t) \/ DecodeTile(t) \/ CutTile(t)
  \/ TakeTile \/ UpdateImage \/ UpdateFails \/ Return

Spec == Init /\ [][Next]_vars

------------------------------------------------------------------------------
(* The types of the variables.                                             *)
TypeOK ==
  /\ img \in Images /\ red \in 0..(img.nres - 1)
  /\ by \in {"header", "area", "decode", "tile"}
  /\ pc \in {"header", "tiles", "update", "done", "failed", "cut"}
  /\ todo \subseteq AllTiles /\ kept \subseteq Comps
  /\ whole \in BOOLEAN /\ calls \in 0..MaxCalls
  /\ resno \in [Comps -> 0..(img.nres - 1)]

(* Of an image that a call returns, every place holds the sample of its    *)
(* coordinates at the resolution asked for: the component begins where the *)
(* area does and misses none of it, and what it has more is zero.  It has  *)
(* more only by what reading the header alone gives a reduced image.       *)
Wanted(c, d) == Reduced(Sampled(out.area[d], img.sub[c][d]), red)
ShowsArea(c) ==
  LET x == Wanted(c, "x")
      y == Wanted(c, "y")
      here(k) == <<NumRes - 1, x.lo + (k % Width(c)), y.lo + (k \div Width(c))>>
  IN /\ DOMAIN data[c] = 0..(Width(c) * Height(c) - 1)
     /\ \A d \in Axes :
          LET more == out.comps[c][d].n - (Wanted(c, d).hi - Wanted(c, d).lo)
          IN more \in 0..(IF by = "header" /\ red > 0 THEN 1 ELSE 0)
     /\ \A k \in DOMAIN data[c] :
          data[c][k] = IF here(k)[2] < x.hi /\ here(k)[3] < y.hi THEN here(k) ELSE 0

(* A call fails only if a component has no sample in the area, or none in  *)
(* a tile when the buffer of an earlier tile is still there.               *)
Lacking(c) ==
  \/ \E d \in Axes : Wanted(c, d).lo = Wanted(c, d).hi
  \/ ~Full(cur, c) /\ c \in kept /\ whole

(* What the encoder cuts is the tile, if the lines are of the length that  *)
(* it takes them to be.                                                    *)
CutRight(c) ==
  LET x == TileComp(cur, c, "x")
      y == TileComp(cur, c, "y")
      w == x.hi - x.lo
  IN Line(c) = RealLine(c) =>
       data[c] = [k \in 0..(w * (y.hi - y.lo) - 1) |->
                    <<img.nres - 1, x.lo + (k % w), y.lo + (k \div w)>>]

(* Whatever area or tile is asked for, however it is reduced and in        *)
(* whatever order its tiles come, each sample is at its place.             *)
ImageExact ==
  /\ pc = "done" => \A c \in Comps : ShowsArea(c)
  /\ pc = "failed" => \E c \in Comps : Lacking(c)
  /\ pc = "cut" => \A c \in Comps : CutRight(c)
==============================================================================
