------------------------------- MODULE MCCoding -------------------------------
(***************************************************************************)
(* Jp2, ImageArea, TileParts, Packets, BlockCoder and WindowDecode for     *)
(* TLC: what the encoder writes, from the boxes of a file and the tiles of *)
(* its image down to the bytes of a code-block and the samples it          *)
(* transforms, with the decoder that reads it.  A behaviour is one of one  *)
(* of the six, `kind`.                                                     *)
(***************************************************************************)
EXTENDS Integers, Sequences, FiniteSets, TLC

CONSTANTS Kinds, Tasks, None

VARIABLES
  kind,
  job, pocs, total, ppc, cur_pino, tp_num, parts, counter, range, include, reader, last,
  prc, style, optimised, keep, layno, sending, rehearsals, enc, dec, coded, kept, surplus,
  before, pterm, bpc, ctxs, mqc, segs, passes, runs,
  file, comps, given, jp2, at, image, subset, calls, colored, jpc,
  tile, wpc, resno, coefs, images, area, numres, whole, data, sa, out,
  img, red, shown, by, tiles, apc, todo, cur, entire, reached, held, samples, asked

partVars == <<job, pocs, total, ppc, cur_pino, tp_num, parts, counter, range, include,
              reader, last>>
packetVars == <<prc, style, optimised, keep, layno, sending, rehearsals, enc, dec, coded,
                kept, surplus>>
blockVars == <<before, pterm, bpc, ctxs, mqc, segs, passes, runs>>
boxVars == <<file, comps, given, jp2, at, image, subset, calls, colored, jpc>>
windowVars == <<tile, wpc, resno, coefs, images, area, numres, whole, data, sa, out>>
areaVars == <<img, red, shown, by, tiles, apc, todo, cur, entire, reached, held, samples,
              asked>>

------------------------------------------------------------------------------
(* Tiles of two components: an axis goes from lo to hi, with subsamplings  *)
(* d and the exponents p of the precincts, one for each resolution.        *)
Axis(lo, hi, d, p) == [lo |-> lo, hi |-> hi, d |-> [c \in 0..1 |-> d[c + 1]],
                       p |-> [r \in 0..(Len(p) - 1) |-> p[r + 1]]]
Tile(x, y, layers) ==
  [x |-> x, y |-> y, nres |-> Cardinality(DOMAIN x.p), layers |-> layers]
Same == <<1, 1>>
Half == <<1, 2>>

OnePrecinct == Tile(Axis(0, 4, Same, <<15, 15>>), Axis(0, 4, Same, <<15, 15>>), 2)
OnGrid == Tile(Axis(0, 4, Same, <<1, 1>>), Axis(0, 2, Same, <<1, 1>>), 2)
OffGrid == Tile(Axis(3, 9, Same, <<1, 1, 1>>), Axis(0, 2, Same, <<1, 1, 1>>), 1)
Tiles ==
  {OnePrecinct, OnGrid, OffGrid,
   Tile(Axis(3, 7, Same, <<1, 1>>), Axis(0, 2, Same, <<1, 1>>), 1),
   Tile(Axis(0, 8, Half, <<1, 1>>), Axis(0, 2, Half, <<1, 1>>), 1),
   Tile(Axis(1, 5, Half, <<15, 15>>), Axis(1, 4, Half, <<15, 15>>), 2),
   Tile(Axis(0, 8, Same, <<1, 2>>), Axis(0, 4, Same, <<1, 2>>), 1),
   Tile(Axis(3, 9, Half, <<1, 1, 1>>), Axis(1, 2, Same, <<1, 1, 1>>), 1),
   Tile(Axis(0, 5, Half, <<1, 1>>), Axis(0, 3, Same, <<1, 1>>), 1),
   Tile(Axis(0, 4, Half, <<0>>), Axis(0, 4, <<2, 1>>, <<0>>), 1)}

Prgs == {"LRCP", "RLCP", "RPCL", "PCRL", "CPRL"}
Job(t, prg, flag, ps) == [tile |-> t, prg |-> prg, flag |-> flag, pocs |-> ps]
Poc(prg, r0, c0, l1, r1, c1) ==
  [prg |-> prg, r0 |-> r0, c0 |-> c0, l1 |-> l1, r1 |-> r1, c1 |-> c1]

(* By resolution, by layer, with ends beyond the image, and by component.  *)
Changes ==
  UNION {{<<Poc(g, 0, 0, 2, 1, 2), Poc(h, 1, 0, 2, 2, 2)>>,
          <<Poc(g, 0, 0, 1, 2, 2), Poc(h, 0, 0, 2, 2, 2)>>,
          <<Poc(g, 0, 0, 9, 9, 2)>>,
          <<Poc(g, 0, 0, 2, 2, 1), Poc(h, 0, 1, 2, 2, 2)>>} :
         g \in {"LRCP", "RPCL", "CPRL"}, h \in {"LRCP", "PCRL"}}

AllTasks ==
  {Job(t, prg, flag, <<>>) : t \in Tiles, prg \in Prgs, flag \in {None, "R", "L", "C"}}
    \cup {Job(t, prg, None, ps) : t \in {OnePrecinct, OnGrid}, prg \in {"LRCP", "PCRL"},
                                  ps \in Changes}
LostTasks == {Job(OffGrid, "PCRL", "C", <<>>)}

Parts == INSTANCE TileParts WITH Jobs <- Tasks, pc <- ppc

------------------------------------------------------------------------------
(* Precincts: one block of many passes; blocks that are added in any       *)
(* layer; a tag tree of two levels, of three leaves and of four; and few   *)
(* blocks with a rate control that goes back.                              *)
Precinct(w, h, bps, planes, styles, takes, lengths, tries) ==
  [w |-> w, h |-> h, bps |-> bps, planes |-> planes, styles |-> styles, takes |-> takes,
   lengths |-> lengths, tries |-> tries]
Styles == {"none", "LAZY", "TERMALL"}
Precincts ==
  {Precinct(1, 1, 15, <<14>>, {"none", "LAZY"}, {0, 1, 2, 5, 36, 37}, {1, 8, 60, 255}, 0),
   Precinct(1, 1, 7, <<6>>, Styles, {0, 1, 2, 10}, {1, 60}, 2),
   Precinct(2, 1, 3, <<2, 0>>, Styles, {0, 1, 4}, {1, 60}, 1),
   Precinct(3, 1, 4, <<1, 3, 2>>, {"none"}, {0, 1, 4}, {1, 60}, 0),
   Precinct(2, 2, 2, <<1, 2, 1, 0>>, {"TERMALL"}, {0, 1, 4}, {1, 60}, 0)}

Packets == INSTANCE Packets WITH MaxLayers <- 2

------------------------------------------------------------------------------
(* A context that is sure of its symbol and one that is never sure; the    *)
(* byte before is such that a carry makes it 0xff.                         *)
Context(i) == [i |-> i, mps |-> 0]
Block == INSTANCE BlockCoder WITH
  pc <- bpc, Starts <- {<<Context(45), Context(46)>>}, Before <- {254},
  Runs <- {1, 7}, MaxRuns <- 3, MaxPasses <- 2

------------------------------------------------------------------------------
(* Two calls on each file, so that the second meets what the first left.   *)
Inputs == INSTANCE Jp2Files
Boxes == INSTANCE Jp2 WITH
  pc <- jpc, Files <- Inputs!Files, Given <- Inputs!Given, MaxCalls <- 2

------------------------------------------------------------------------------
(* Lines of any parity, of one sample and of many, across and down, in     *)
(* blocks as small as can be, so that one too few is missed; and planes.   *)
Sample(v) == ((7 * v[1] * v[1] + 13 * v[2] + 5 * v[1] * v[2]) % 17) - 8
Plane(x, w, y, h, nres, cblk) ==
  [x |-> [lo |-> x, hi |-> x + w], y |-> [lo |-> y, hi |-> y + h], nres |-> nres, cblk |-> cblk,
   data |-> [v \in (0..(w - 1)) \X (0..(h - 1)) |-> Sample(v)]]
Planes ==
  {Plane(a, n, 1, 1, r, 1) : a \in 0..3, n \in {1, 11}, r \in 1..3}
    \cup {Plane(1, 1, a, n, r, 1) : a \in 0..3, n \in {1, 11}, r \in 2..3}
    \cup {Plane(1, 5, 2, 4, 2, 2), Plane(2, 6, 1, 3, 3, 1)}
Windows == INSTANCE WindowDecode WITH
  pc <- wpc, Tiles <- Planes, Junk <- 1000, Side <- 3

------------------------------------------------------------------------------
(* Images of two components: along x and y where they begin and end, and   *)
(* the origin and size of the tiles; the second component is subsampled by *)
(* sub.  Origins on and off the grids, tiles with no sample of the second  *)
(* component, one tile that is taken as it is, and one that is cut.        *)
Along(lo, hi, t0, td) == [lo |-> lo, hi |-> hi, t0 |-> t0, td |-> td]
Image(x, y, sx, sy, levels) ==
  [x |-> x, y |-> y, nres |-> levels,
   sub |-> <<[x |-> 1, y |-> 1], [x |-> sx, y |-> sy]>>]
Pictures ==
  {Image(Along(1, 8, 0, 3), Along(0, 2, 0, 2), 2, 1, 3),
   Image(Along(2, 8, 1, 3), Along(1, 3, 0, 2), 2, 2, 3),
   Image(Along(0, 4, 0, 4), Along(0, 3, 0, 3), 2, 1, 2),
   Image(Along(2, 5, 1, 2), Along(0, 4, 0, 2), 2, 1, 3),
   Image(Along(1, 7, 0, 8), Along(3, 5, 2, 4), 1, 3, 2)}
Area == INSTANCE ImageArea WITH
  out <- shown, range <- tiles, pc <- apc, whole <- entire, resno <- reached, kept <- held,
  data <- samples, calls <- asked,
  Images <- Pictures, Margins <- 1, MaxCalls <- 2, Junk <- 1000

------------------------------------------------------------------------------
NoParts ==
  /\ job = None /\ pocs = None /\ total = None /\ ppc = None /\ cur_pino = None
  /\ tp_num = None /\ parts = None /\ counter = None /\ range = None /\ include = None
  /\ reader = None /\ last = None
NoPackets ==
  /\ prc = None /\ style = None /\ optimised = None /\ keep = None /\ layno = None
  /\ sending = None /\ rehearsals = None /\ enc = None /\ dec = None /\ coded = None
  /\ kept = None /\ surplus = None
NoBlock ==
  /\ before = None /\ pterm = None /\ bpc = None /\ ctxs = None /\ mqc = None
  /\ segs = None /\ passes = None /\ runs = None
NoBoxes ==
  /\ file = None /\ comps = None /\ given = None /\ jp2 = None /\ at = None /\ image = None
  /\ subset = None /\ calls = None /\ colored = None /\ jpc = None
NoWindows ==
  /\ tile = None /\ wpc = None /\ resno = None /\ coefs = None /\ images = None
  /\ area = None /\ numres = None /\ whole = None /\ data = None /\ sa = None /\ out = None
NoAreas ==
  /\ img = None /\ red = None /\ shown = None /\ by = None /\ tiles = None /\ apc = None
  /\ todo = None /\ cur = None /\ entire = None /\ reached = None /\ held = None
  /\ samples = None /\ asked = None

Init ==
  /\ kind \in Kinds
  /\ IF kind = "parts" THEN Parts!Init ELSE NoParts
  /\ IF kind = "packets" THEN Packets!Init ELSE NoPackets
  /\ IF kind = "block" THEN Block!Init ELSE NoBlock
  /\ IF kind = "boxes" THEN Boxes!Init ELSE NoBoxes
  /\ IF kind = "windows" THEN Windows!Init ELSE NoWindows
  /\ IF kind = "areas" THEN Area!Init ELSE NoAreas

NextParts ==
  /\ kind = "parts" /\ Parts!Next
  /\ UNCHANGED <<kind, packetVars, blockVars, boxVars, windowVars, areaVars>>
NextPackets ==
  /\ kind = "packets" /\ Packets!Next
  /\ UNCHANGED <<kind, partVars, blockVars, boxVars, windowVars, areaVars>>
NextBlock ==
  /\ kind = "block" /\ Block!Next
  /\ UNCHANGED <<kind, partVars, packetVars, boxVars, windowVars, areaVars>>
NextBox ==
  /\ kind = "boxes" /\ Boxes!Next
  /\ UNCHANGED <<kind, partVars, packetVars, blockVars, windowVars, areaVars>>
NextWindow ==
  /\ kind = "windows" /\ Windows!Next
  /\ UNCHANGED <<kind, partVars, packetVars, blockVars, boxVars, areaVars>>
NextArea ==
  /\ kind = "areas" /\ Area!Next
  /\ UNCHANGED <<kind, partVars, packetVars, blockVars, boxVars, windowVars>>

Next == NextParts \/ NextPackets \/ NextBlock \/ NextBox \/ NextWindow \/ NextArea

Spec ==
  Init /\ [][Next]_<<kind, partVars, packetVars, blockVars, boxVars, windowVars, areaVars>>

------------------------------------------------------------------------------
(* With the types of the variables of each module.                         *)

(* The decoder's iterator meets the packets in the order in which they are *)
(* in the tile-parts, over all of these; and no more tile-parts are        *)
(* written than announced.                                                 *)
PartsReadBack == kind = "parts" => Parts!TypeOK /\ Parts!PartsReadBack

(* Whatever -TP asks for, the tile-parts hold all the packets of the tile. *)
AllWritten == kind = "parts" => Parts!AllWritten

(* The decoder finds in the packets the passes, lengths and bit-planes     *)
(* that the encoder has put there.                                         *)
PacketsReadBack == kind = "packets" => Packets!TypeOK /\ Packets!PacketsReadBack

(* The decoder finds in the bytes of a segment, or of a pass, the symbols  *)
(* that the encoder has coded.                                             *)
SegmentsReadBack == kind = "block" => Block!TypeOK /\ Block!CodeReadBack

(* A header is accepted if and only if its boxes are in order; an image    *)
(* shows each channel of the file once, mapped and in the place the boxes  *)
(* give it; and what the encoder writes gives the image back.              *)
Jp2Sound == kind = "boxes" => Boxes!Jp2Sound

(* Whatever part of a tile is decoded, at whatever resolution, its samples *)
(* are those the encoder has transformed.                                  *)
WindowExact == kind = "windows" => Windows!TypeOK /\ Windows!WindowExact

(* Whatever area or tile of an image is asked for, however it is reduced   *)
(* and in whatever order its tiles come, each sample is at its place.      *)
ImageExact == kind = "areas" => Area!TypeOK /\ Area!ImageExact
==============================================================================
